---------------------------- MODULE Spec2Model ----------------------------
(***************************************************************************)
(* Model of relay-pty-host (crates/pty-host/src/main.rs): the ring buffer  *)
(* (OutputBuffer), the client handshake, the broadcast channel with its    *)
(* per-client forwarders, and the PTY read task.                           *)
(*                                                                         *)
(* Bytes are integers.  Frames are records [type, body, val]: body is the  *)
(* byte payload (DATA, BUFFER_REPLAY, TITLE), val the numeric payload      *)
(* (SYNC offset, SESSION_STATE byte, EXIT code).                           *)
(***************************************************************************)
EXTENDS Integers, Sequences, FiniteSets, TLC

(***************************************************************************)
(* Program constants                                                       *)
(***************************************************************************)
WS_MSG_DATA == 0
WS_MSG_RESIZE == 1
WS_MSG_EXIT == 2
WS_MSG_BUFFER_REPLAY == 3
WS_MSG_TITLE == 4
WS_MSG_NOTIFICATION == 5
WS_MSG_RESUME == 16
WS_MSG_SYNC == 17
WS_MSG_SESSION_STATE == 18
WS_MSG_BUFFER_REPLAY_GZ == 19

IDLE_TIMEOUT_MS == 60000

\* Byte values used by the escape-sequence scanners.
ESC == 27
BEL == 7
NL == 10

(***************************************************************************)
(* Bounds of the model.  BUFFER_SIZE is the ring capacity (10 MiB in the   *)
(* program), BROADCAST_CAPACITY the broadcast queue length (256 in the     *)
(* program); both are scaled down so that wrap-around and overflow happen. *)
(***************************************************************************)
BUFFER_SIZE == 2
BROADCAST_CAPACITY == 2
\* Length from which send_replay tries gzip (4096 in the program), scaled down
\* and kept above BUFFER_SIZE.
GZIP_THRESHOLD == 3
\* Frames a client's socket buffer holds before write_all blocks.
SocketCapacity == 1
\* Chunks the PTY read task reads before EOF.
MaxChunks == 2
\* Ticks of the flush task, and of the metrics task.
MaxTicks == 3
\* Largest RESUME offset a client sends.
MaxOffset == 2
\* Ring-buffer specification: total bytes written, and offsets read from.
MaxTotal == 5

Min(a, b) == IF a < b THEN a ELSE b
Max(a, b) == IF a > b THEN a ELSE b

\* s[from..] and s[..to) with 0-based indices, as Rust slices.
SliceFrom(s, from) == SubSeq(s, from + 1, Len(s))
SliceTo(s, to) == SubSeq(s, 1, to)
Slice(s, from, to) == SubSeq(s, from + 1, to)

\* f64 offsets received from a client: F64(n) is the number n, NaN the value
\* that is not a number.  Every comparison with NaN is false, and the cast
\* "x as usize" saturates: NaN and negative values become 0.
F64(n) == <<n>>
NaN == << >>
IsNaN(x) == x = NaN
F64_ge(x, n) == ~IsNaN(x) /\ x[1] >= n
F64_lt(x, n) == ~IsNaN(x) /\ x[1] < n
F64_le(x, n) == ~IsNaN(x) /\ x[1] <= n
F64_sub_as_usize(x, n) == IF IsNaN(x) THEN 0 ELSE Max(x[1] - n, 0)

\* Option<Vec<u8>>
None == [some |-> FALSE, v |-> << >>]
Some(v) == [some |-> TRUE, v |-> v]

(***************************************************************************)
(* OutputBuffer                                                            *)
(***************************************************************************)
\* OutputBuffer::new
OutputBuffer_new(max_size) ==
    [buffer |-> [i \in 1..max_size |-> 0],
     write_pos |-> 0,
     filled |-> FALSE,
     total_written |-> 0,
     max_size |-> max_size]

\* buffer[at .. at+Len(data)) = data  (copy_from_slice)
CopyInto(buffer, at, data) ==
    [i \in 1..Len(buffer) |->
        IF i > at /\ i <= at + Len(data) THEN data[i - at] ELSE buffer[i]]

\* The final "if self.write_pos >= self.max_size" of OutputBuffer::write.
WrapPos(ob) ==
    IF ob.write_pos >= ob.max_size
    THEN [ob EXCEPT !.write_pos = 0, !.filled = TRUE]
    ELSE ob

\* A write that counts in total_written only the bytes the buffer keeps.
OutputBuffer_write_CountKept(ob, data) ==
    LET total == ob.total_written + Min(Len(data), ob.max_size)
        n == Len(data)
    IN  IF n >= ob.max_size
        THEN [ob EXCEPT !.buffer = SliceFrom(data, n - ob.max_size),
                        !.write_pos = 0, !.filled = TRUE,
                        !.total_written = total]
        ELSE LET space_left == ob.max_size - ob.write_pos
             IN  IF n <= space_left
                 THEN WrapPos([ob EXCEPT
                        !.buffer = CopyInto(ob.buffer, ob.write_pos, data),
                        !.write_pos = ob.write_pos + n,
                        !.total_written = total])
                 ELSE LET remaining == n - space_left
                      IN  WrapPos([ob EXCEPT
                             !.buffer = CopyInto(
                                 CopyInto(ob.buffer, ob.write_pos, SliceTo(data, space_left)),
                                 0, SliceFrom(data, space_left)),
                             !.write_pos = remaining, !.filled = TRUE,
                             !.total_written = total])

\* A write that never marks the buffer as wrapped when the data ends exactly
\* at the end of the backing array.
OutputBuffer_write_NoWrapAtEnd(ob, data) ==
    LET total == ob.total_written + Len(data)
        n == Len(data)
    IN  IF n >= ob.max_size
        THEN [ob EXCEPT !.buffer = SliceFrom(data, n - ob.max_size),
                        !.write_pos = 0, !.filled = TRUE,
                        !.total_written = total]
        ELSE LET space_left == ob.max_size - ob.write_pos
             IN  IF n <= space_left
                 THEN [ob EXCEPT !.buffer = CopyInto(ob.buffer, ob.write_pos, data),
                                 !.write_pos = (ob.write_pos + n) % ob.max_size,
                                 !.total_written = total]
                 ELSE LET remaining == n - space_left
                      IN  [ob EXCEPT
                             !.buffer = CopyInto(
                                 CopyInto(ob.buffer, ob.write_pos, SliceTo(data, space_left)),
                                 0, SliceFrom(data, space_left)),
                             !.write_pos = remaining, !.filled = TRUE,
                             !.total_written = total]

\* OutputBuffer::write
OutputBuffer_write(ob, data) ==
    LET total == ob.total_written + Len(data)
        n == Len(data)
    IN  IF n >= ob.max_size
        THEN \* Data larger than buffer -- keep the tail
             [ob EXCEPT !.buffer = SliceFrom(data, n - ob.max_size),
                        !.write_pos = 0, !.filled = TRUE,
                        !.total_written = total]
        ELSE LET space_left == ob.max_size - ob.write_pos
             IN  IF n <= space_left
                 THEN WrapPos([ob EXCEPT
                        !.buffer = CopyInto(ob.buffer, ob.write_pos, data),
                        !.write_pos = ob.write_pos + n,
                        !.total_written = total])
                 ELSE \* Wrap around
                      LET remaining == n - space_left
                      IN  WrapPos([ob EXCEPT
                             !.buffer = CopyInto(
                                 CopyInto(ob.buffer, ob.write_pos, SliceTo(data, space_left)),
                                 0, SliceFrom(data, space_left)),
                             !.write_pos = remaining, !.filled = TRUE,
                             !.total_written = total])

\* OutputBuffer::size
OutputBuffer_size(ob) == IF ob.filled THEN ob.max_size ELSE ob.write_pos

\* OutputBuffer::read_raw
OutputBuffer_read_raw(ob) ==
    IF ~ob.filled
    THEN SliceTo(ob.buffer, ob.write_pos)
    ELSE SliceFrom(ob.buffer, ob.write_pos) \o SliceTo(ob.buffer, ob.write_pos)

\* buf.iter().position(|&b| b == b'\n'): 0-based index, or -1 for None.
RECURSIVE PositionFrom(_, _, _)
PositionFrom(buf, b, i) ==
    IF i > Len(buf) THEN -1
    ELSE IF buf[i] = b THEN i - 1
    ELSE PositionFrom(buf, b, i + 1)

\* A sanitize_start that keeps the first newline.
sanitize_start_KeepNewline(buf) ==
    LET idx == PositionFrom(buf, NL, 1)
    IN  IF idx >= 0
        THEN IF idx = 0 THEN buf ELSE SliceFrom(buf, idx)
        ELSE buf

\* sanitize_start
sanitize_start(buf) ==
    LET idx == PositionFrom(buf, NL, 1)
    IN  IF idx >= 0
        THEN IF idx = 0 THEN buf ELSE SliceFrom(buf, idx + 1)
        ELSE buf

\* OutputBuffer::read
OutputBuffer_read(ob) ==
    IF ~ob.filled
    THEN SliceTo(ob.buffer, ob.write_pos)
    ELSE sanitize_start(SliceFrom(ob.buffer, ob.write_pos) \o SliceTo(ob.buffer, ob.write_pos))

\* read_from that takes the start of the retained window from the capacity
\* instead of the logical size.
OutputBuffer_read_from_Capacity(ob, offset) ==
    IF F64_ge(offset, ob.total_written)
    THEN Some(<< >>)
    ELSE LET buffer_start == ob.total_written - ob.max_size
         IN  IF F64_lt(offset, buffer_start)
             THEN None
             ELSE LET skip_bytes == F64_sub_as_usize(offset, buffer_start)
                  IN  Some(SliceFrom(OutputBuffer_read_raw(ob), skip_bytes))

\* OutputBuffer::read_from
OutputBuffer_read_from(ob, offset) ==
    IF F64_ge(offset, ob.total_written)
    THEN Some(<< >>)  \* fully caught up
    ELSE LET buffer_start == ob.total_written - OutputBuffer_size(ob)
         IN  IF F64_lt(offset, buffer_start)
             THEN None  \* too old, data overwritten
             ELSE LET skip_bytes == F64_sub_as_usize(offset, buffer_start)
                  IN  Some(SliceFrom(OutputBuffer_read_raw(ob), skip_bytes))

(***************************************************************************)
(* Escape-sequence scanners.  Indices are 0-based as in the source.        *)
(***************************************************************************)
At(data, i) == data[i + 1]

\* The "while j < data.len() && data[j] >= 0x20 && data[j] <= 0x3f" loop.
RECURSIVE SkipParams(_, _)
SkipParams(data, j) ==
    IF j < Len(data) /\ At(data, j) >= 32 /\ At(data, j) <= 63
    THEN SkipParams(data, j + 1)
    ELSE j

\* A test that looks at the final byte only.
IsQuery_FinalByteOnly(params, final_byte) ==
    final_byte = 110 \/ final_byte = 99

\* is_dsr || is_da for the parameter bytes and the final byte.
IsQuery(params, final_byte) ==
    \/ final_byte = 110 /\ (params = <<54>> \/ params = <<63, 54>>)
    \/ final_byte = 99 /\ (params = << >> \/ params = <<62>> \/ params = <<61>>
                             \/ params = <<48>>)

\* The main loop of strip_terminal_queries from index i.
RECURSIVE StripFrom(_, _)
StripFrom(data, i) ==
    IF i >= Len(data) THEN << >>
    ELSE IF At(data, i) = ESC /\ i + 1 < Len(data) /\ At(data, i + 1) = 91
         THEN LET j == SkipParams(data, i + 2)
              IN  IF j < Len(data) /\ IsQuery(Slice(data, i + 2, j), At(data, j))
                  THEN StripFrom(data, j + 1)
                  ELSE <<At(data, i)>> \o StripFrom(data, i + 1)
         ELSE <<At(data, i)>> \o StripFrom(data, i + 1)

\* strip_terminal_queries
strip_terminal_queries(data) == StripFrom(data, 0)

\* The terminator scan of the OSC parsers from index end: the index and the
\* length of the terminator found (BEL: 1, ESC \: 2), or <<-1, 0>>.
RECURSIVE FindTerminator(_, _)
FindTerminator(data, end) ==
    IF end >= Len(data) THEN <<0 - 1, 0>>
    ELSE IF At(data, end) = BEL THEN <<end, 1>>
    ELSE IF At(data, end) = ESC /\ end + 1 < Len(data) /\ At(data, end + 1) = 92
         THEN <<end, 2>>
    ELSE FindTerminator(data, end + 1)

\* String::from_utf8_lossy(bytes).to_string(), as the bytes of the String:
\* ASCII is kept; a byte that can occur in no UTF-8 encoding (0xf8-0xff) is
\* replaced by U+FFFD (ef bf bd).  Other bytes are not used by the model.
RECURSIVE from_utf8_lossy(_)
from_utf8_lossy(bytes) ==
    IF bytes = << >> THEN << >>
    ELSE (IF Head(bytes) >= 248 THEN <<239, 191, 189>> ELSE <<Head(bytes)>>)
             \o from_utf8_lossy(Tail(bytes))

\* The main loop of parse_osc_title from index i.  Option<String>: << >> is
\* None, <<t>> is Some(t); the title is kept as its bytes.
RECURSIVE ParseTitleFrom(_, _)
ParseTitleFrom(data, i) ==
    IF ~(i + 3 < Len(data)) THEN << >>
    ELSE IF /\ At(data, i) = ESC /\ At(data, i + 1) = 93
            /\ (At(data, i + 2) = 48 \/ At(data, i + 2) = 50)
            /\ At(data, i + 3) = 59
            /\ FindTerminator(data, i + 4)[1] >= 0
         THEN <<from_utf8_lossy(Slice(data, i + 4, FindTerminator(data, i + 4)[1]))>>
         ELSE ParseTitleFrom(data, i + 1)

\* parse_osc_title
parse_osc_title(data) == ParseTitleFrom(data, 0)

\* The main loop of extract_osc9_notifications from index i:
\* [cleaned, notifications].
RECURSIVE ExtractFrom(_, _)
ExtractFrom(data, i) ==
    IF i >= Len(data) THEN [cleaned |-> << >>, notifications |-> << >>]
    ELSE IF /\ At(data, i) = ESC /\ i + 1 < Len(data) /\ At(data, i + 1) = 93
            /\ i + 2 < Len(data) /\ At(data, i + 2) = 57
            /\ i + 3 < Len(data) /\ At(data, i + 3) = 59
            /\ FindTerminator(data, i + 4)[1] >= 0
         THEN LET t == FindTerminator(data, i + 4)
                  rest == ExtractFrom(data, t[1] + t[2])
              IN  [cleaned |-> rest.cleaned,
                   notifications |-> <<from_utf8_lossy(Slice(data, i + 4, t[1]))>>
                                         \o rest.notifications]
         ELSE LET rest == ExtractFrom(data, i + 1)
              IN  [cleaned |-> <<At(data, i)>> \o rest.cleaned,
                   notifications |-> rest.notifications]

\* An extraction that reports the messages newest first.
extract_osc9_notifications_Reversed(data) ==
    LET r == ExtractFrom(data, 0)
    IN  [cleaned |-> r.cleaned,
         notifications |-> [k \in 1..Len(r.notifications) |->
                               r.notifications[Len(r.notifications) + 1 - k]]]

\* extract_osc9_notifications
extract_osc9_notifications(data) == ExtractFrom(data, 0)

(***************************************************************************)
(* Frames                                                                  *)
(***************************************************************************)
Frame(type, body, val) == [type |-> type, body |-> body, val |-> val]
DataFrame(bytes) == Frame(WS_MSG_DATA, bytes, 0)
TitleFrame(t) == Frame(WS_MSG_TITLE, t, 0)
NotificationFrame(msg) == Frame(WS_MSG_NOTIFICATION, msg, 0)
SessionStateFrame(active) == Frame(WS_MSG_SESSION_STATE, << >>, IF active THEN 1 ELSE 0)
ExitFrame(code) == Frame(WS_MSG_EXIT, << >>, code)
SyncFrame(total) == Frame(WS_MSG_SYNC, << >>, total)

\* The result of GzEncoder::finish: ok with the compressed length, or an error.
GzipResults(data) ==
    IF Len(data) >= GZIP_THRESHOLD
    THEN {[ok |-> TRUE, len |-> Len(data) - 1], [ok |-> TRUE, len |-> Len(data)],
          [ok |-> FALSE, len |-> 0]}
    ELSE {[ok |-> TRUE, len |-> 0]}

\* The replay frame send_replay writes for buf_data: none when the stripped
\* bytes are empty or the encoder fails.  The body of a BUFFER_REPLAY_GZ frame
\* stands for the gzip stream of these bytes.
ReplayFrames(buf_data, gz) ==
    LET cleaned == IF buf_data # << >> THEN strip_terminal_queries(buf_data) ELSE << >>
    IN  IF cleaned = << >> THEN << >>
        ELSE IF Len(cleaned) >= GZIP_THRESHOLD
             THEN IF gz.ok
                  THEN IF gz.len < Len(cleaned)
                       THEN <<Frame(WS_MSG_BUFFER_REPLAY_GZ, cleaned, gz.len)>>
                       ELSE <<Frame(WS_MSG_BUFFER_REPLAY, cleaned, 0)>>
                  ELSE << >>
             ELSE <<Frame(WS_MSG_BUFFER_REPLAY, cleaned, 0)>>

(***************************************************************************)
(* State                                                                   *)
(***************************************************************************)
Clients == {1}

VARIABLES
    output_buffer,  \* SharedState.output_buffer
    session_active, \* SharedState.session_active
    exit_code,      \* SharedState.exit_code: << >> is None, <<code>> is Some(code)
    title,          \* SharedState.title: << >> is None, <<t>> is Some(t)
    meta,           \* SharedState.meta (the fields the modelled tasks write)
    meta_dirty,     \* SharedState.meta_dirty
    disk,           \* the session metadata file
    lock_readers,   \* clients whose handshake holds the state RwLock for reading
    bcast,          \* every frame sent on the broadcast channel, in order
    pty,            \* PTY read task: pc, chunk in hand, chunks read, exit code
    idle_pc,        \* idle timer task
    hs,             \* per client: handle_client's position and locals
    fwd,            \* per client: broadcast forwarder (pc, next, sub_at)
    sock,           \* per client: writer mutex, frames written, whether the
                    \* client has stopped reading, frames unread since then
    input_q,        \* input_tx/input_rx channel
    pty_in,         \* what the PTY write task wrote to the master
    host_exited,    \* process::exit was called
    proc,           \* the host process: spawn outcome, SIGTERM handler position,
                    \* whether the child was sent SIGTERM, socket file, exit
                    \* status (<< >> while running), the next now_millis()
    stream,         \* history: every byte ever passed to OutputBuffer::write
    rf,             \* ring specification: the last read_from call and its result
    call,           \* the last call of a byte-string function: name, input, result
    fs,             \* the session file, its temporary file and the write in progress
    resize_q,       \* resize_tx/resize_rx channel
    resize_task,    \* resize task: pc, the pair in hand, the PTY's window size
    flush,          \* periodic JSON flush task: pc, ticks taken, writes made
    metrics         \* metrics task: pc, ticks taken, SharedState.last_metrics_nonzero,
                    \* prev_bps5_above_threshold

sharedVars == <<output_buffer, session_active, exit_code, title, meta, meta_dirty,
                disk, stream>>
clientVars == <<hs, fwd, sock>>
inputVars == <<input_q, pty_in>>
hostVars == <<host_exited, proc>>
taskVars == <<resize_task, flush, metrics>>
auxVars == <<rf, call, fs, resize_q, taskVars>>
vars == <<output_buffer, session_active, exit_code, title, meta, meta_dirty, disk,
          lock_readers, bcast, pty, idle_pc, hs, fwd, sock, input_q,
          pty_in, host_exited, proc, stream, rf, call, fs, resize_q, resize_task,
          flush, metrics>>

\* rf before any read: called says that read_from was the last call, read
\* holds the result of read when that was the last call.
NoRead == [called |-> FALSE, offset |-> 0, result |-> None, read |-> None]
\* The metadata written at startup ("Write initial session metadata"); of
\* SessionMeta the fields that the modelled tasks write.
InitialMeta ==
    [title |-> << >>, total_bytes_written |-> 0, status |-> "running",
     exit_code |-> << >>, exited_at |-> << >>, error |-> << >>,
     cols |-> 80, rows |-> 24, bps |-> <<0, 0, 0>>, last_activity |-> 0]

\* What waitpid stores in status: the child exited with code n, was killed by
\* signal n, or neither; NoStatus before waitpid.
WExited(n) == [kind |-> "exited", n |-> n]
WSignaled(n) == [kind |-> "signaled", n |-> n]
WOther == [kind |-> "other", n |-> 0]
NoStatus == [kind |-> "none", n |-> 0]

\* An exit code that leaves out the 128 offset of a death by signal.
ExitCodeOf_RawSignal(status) ==
    IF status.kind = "exited" THEN status.n
    ELSE IF status.kind = "signaled" THEN status.n
    ELSE 0 - 1

\* "let code = if WIFEXITED .. else if WIFSIGNALED .. else -1".
ExitCodeOf(status) ==
    IF status.kind = "exited" THEN status.n
    ELSE IF status.kind = "signaled" THEN 128 + status.n
    ELSE 0 - 1

\* No function called yet.
NoCall == [fn |-> "none", input |-> << >>, output |-> << >>]
\* serde_json::to_string of version v of the metadata: an opening brace, the
\* contents, a closing brace.
Json(v) == <<123, v, 125>>
\* main before the initial write: the session file is absent, there is no
\* temporary file.
NoWrite == [file |-> None, tmp |-> None, pc |-> "start", json |-> << >>]
\* After the initial write: the file holds version 0, no write in progress.
InitialFile == [file |-> Some(Json(0)), tmp |-> None, pc |-> "idle", json |-> Json(0)]

\* The tasks of main at startup: no resize queued, the window size given to
\* spawn_pty, the flush and metrics tasks before their first tick.
InitTasks ==
    /\ resize_q = << >>
    /\ resize_task = [pc |-> "recv", new_cols |-> 0, new_rows |-> 0,
                      ws_col |-> 80, ws_row |-> 24, done |-> 0]
    /\ flush = [pc |-> "run", ticks |-> 0, writes |-> 0]
    /\ metrics = [pc |-> "run", ticks |-> 0, last_metrics_nonzero |-> FALSE,
                  prev_bps5_above_threshold |-> FALSE]

\* No first frame kept for dispatch.
NoMsg == Frame(WS_MSG_RESUME, << >>, 0)

\* The state after startup, without the function-call record.
InitMain ==
    /\ output_buffer = OutputBuffer_new(BUFFER_SIZE)
    /\ session_active = TRUE
    /\ exit_code = << >>
    /\ title = << >>
    /\ meta = InitialMeta
    /\ meta_dirty = FALSE
    /\ disk = meta
    /\ lock_readers = {}
    /\ bcast = << >>
    /\ pty = [pc |-> "read", chunk |-> << >>, chunks_read |-> 0,
              wstatus |-> NoStatus, code |-> 0]
    /\ idle_pc = "run"
    /\ hs = [c \in Clients |->
               [pc |-> "none", kind |-> "none", offset |-> F64(0), first |-> NoMsg,
                snap_total |-> 0, buf_data |-> << >>, out_q |-> << >>]]
    /\ fwd = [c \in Clients |-> [pc |-> "none", next |-> 0, sub_at |-> 0]]
    /\ sock = [c \in Clients |->
                 [mutex |-> "free", sent |-> << >>, stalled |-> FALSE, unread |-> 0]]
    /\ input_q = << >>
    /\ pty_in = << >>
    /\ host_exited = FALSE
    /\ proc = [spawn |-> "ok", sig |-> "none", kill_sent |-> FALSE, socket |-> TRUE,
               exit_status |-> << >>, now |-> 1]
    /\ stream = << >>
    /\ rf = NoRead
    /\ fs = InitialFile
    /\ InitTasks

Init ==
    /\ InitMain
    /\ call = NoCall

(***************************************************************************)
(* PTY read task (main, "PTY read task")                                   *)
(***************************************************************************)
TitleChunk == <<ESC, 93, 48, 59, 116, BEL>>
PtyChunks == {<<97>>, <<97, NL>>, TitleChunk}
\* The wait status of the child in the specifications with clients.
ExitStatuses == {WExited(0)}

Cleaned(chunk) == extract_osc9_notifications(chunk).cleaned

RECURSIVE NotificationFrames(_)
NotificationFrames(notifs) ==
    IF notifs = << >> THEN << >>
    ELSE <<NotificationFrame(Head(notifs))>> \o NotificationFrames(Tail(notifs))

\* From the end of the title block to the state update: one NOTIFICATION per
\* OSC 9 message, then the update only if the cleaned bytes are not empty.
AfterTitle(b, chunk) ==
    /\ bcast' = b \o NotificationFrames(extract_osc9_notifications(chunk).notifications)
    /\ pty' = [pty EXCEPT !.chunk = chunk,
                          !.pc = IF Cleaned(chunk) = << >> THEN "read" ELSE "update"]

\* PtyRead without the test for empty cleaned bytes.
PtyRead_AlwaysUpdate(chunk) ==
    /\ ~host_exited
    /\ pty.pc = "read"
    /\ pty.chunks_read < MaxChunks
    /\ IF parse_osc_title(chunk) # << >>
       THEN /\ pty' = [pty EXCEPT !.chunk = chunk, !.pc = "title",
                                  !.chunks_read = @ + 1]
            /\ UNCHANGED bcast
       ELSE /\ bcast' = bcast \o NotificationFrames(extract_osc9_notifications(chunk).notifications)
            /\ pty' = [pty EXCEPT !.chunk = chunk, !.chunks_read = @ + 1,
                                  !.pc = "update"]
    /\ UNCHANGED <<sharedVars, lock_readers, idle_pc, clientVars, inputVars,
                   hostVars, auxVars>>

\* libc::read returned a chunk; parse_osc_title decides whether the title
\* block takes the write lock.
PtyRead(chunk) ==
    /\ ~host_exited
    /\ pty.pc = "read"
    /\ pty.chunks_read < MaxChunks
    /\ IF parse_osc_title(chunk) # << >>
       THEN /\ pty' = [pty EXCEPT !.chunk = chunk, !.pc = "title",
                                  !.chunks_read = @ + 1]
            /\ UNCHANGED bcast
       ELSE /\ bcast' = bcast \o NotificationFrames(extract_osc9_notifications(chunk).notifications)
            /\ pty' = [pty EXCEPT !.chunk = chunk, !.chunks_read = @ + 1,
                          !.pc = IF Cleaned(chunk) = << >> THEN "read" ELSE "update"]
    /\ UNCHANGED <<sharedVars, lock_readers, idle_pc, clientVars, inputVars,
                   hostVars, auxVars>>

\* A title block that does not compare the new title with the current one.
PtyTitle_NoCompare ==
    /\ ~host_exited
    /\ pty.pc = "title"
    /\ lock_readers = {}
    /\ title' = parse_osc_title(pty.chunk)
    /\ meta' = [meta EXCEPT !.title = title']
    /\ disk' = meta'
    /\ meta_dirty' = FALSE
    /\ pty' = [pty EXCEPT !.pc = "title_bcast"]
    /\ UNCHANGED <<bcast, output_buffer, session_active, exit_code, stream,
                   lock_readers, idle_pc, clientVars, inputVars, hostVars, auxVars>>

\* The title block under the write lock: title, meta.title, immediate flush.
PtyTitle ==
    /\ ~host_exited
    /\ pty.pc = "title"
    /\ lock_readers = {}
    /\ LET new_title == parse_osc_title(pty.chunk)
       IN  IF title # new_title
           THEN /\ title' = new_title
                /\ meta' = [meta EXCEPT !.title = new_title]
                /\ disk' = meta'
                /\ meta_dirty' = FALSE
                /\ pty' = [pty EXCEPT !.pc = "title_bcast"]
                /\ UNCHANGED bcast
           ELSE /\ AfterTitle(bcast, pty.chunk)
                /\ UNCHANGED <<title, meta, disk, meta_dirty>>
    /\ UNCHANGED <<output_buffer, session_active, exit_code, stream,
                   lock_readers, idle_pc, clientVars, inputVars, hostVars, auxVars>>

\* Broadcast TITLE after the lock is dropped.
PtyTitleBcast ==
    /\ ~host_exited
    /\ pty.pc = "title_bcast"
    /\ AfterTitle(Append(bcast, TitleFrame(parse_osc_title(pty.chunk)[1])), pty.chunk)
    /\ UNCHANGED <<sharedVars, lock_readers, idle_pc, clientVars, inputVars,
                   hostVars, auxVars>>

\* A state update that counts the bytes read instead of the cleaned bytes.
PtyUpdate_CountRead ==
    /\ ~host_exited
    /\ pty.pc = "update"
    /\ lock_readers = {}
    /\ LET cleaned == Cleaned(pty.chunk)
       IN  /\ output_buffer' = OutputBuffer_write(output_buffer, cleaned)
           /\ stream' = stream \o cleaned
           /\ meta' = [meta EXCEPT !.total_bytes_written = @ + Len(pty.chunk),
                                   !.last_activity = pty.chunks_read]
    /\ meta_dirty' = TRUE
    /\ session_active' = TRUE
    /\ bcast' = IF ~session_active THEN Append(bcast, SessionStateFrame(TRUE)) ELSE bcast
    /\ pty' = [pty EXCEPT !.pc = "data"]
    /\ UNCHANGED <<exit_code, title, disk, lock_readers, idle_pc, clientVars,
                   inputVars, hostVars, auxVars>>

\* The state update under the write lock ("if !cleaned.is_empty()").  The
\* time of the update, now_millis(), is the number of the chunk.
PtyUpdate ==
    /\ ~host_exited
    /\ pty.pc = "update"
    /\ lock_readers = {}
    /\ LET cleaned == Cleaned(pty.chunk)
       IN  /\ output_buffer' = OutputBuffer_write(output_buffer, cleaned)
           /\ stream' = stream \o cleaned
           /\ meta' = [meta EXCEPT !.total_bytes_written = @ + Len(cleaned),
                                   !.last_activity = pty.chunks_read]
    /\ meta_dirty' = TRUE
    /\ session_active' = TRUE
    /\ bcast' = IF ~session_active THEN Append(bcast, SessionStateFrame(TRUE)) ELSE bcast
    /\ pty' = [pty EXCEPT !.pc = "data"]
    /\ UNCHANGED <<exit_code, title, disk, lock_readers, idle_pc, clientVars,
                   inputVars, hostVars, auxVars>>

\* Broadcast DATA to all clients.
PtyData ==
    /\ ~host_exited
    /\ pty.pc = "data"
    /\ bcast' = Append(bcast, DataFrame(Cleaned(pty.chunk)))
    /\ pty' = [pty EXCEPT !.pc = "read"]
    /\ UNCHANGED <<sharedVars, lock_readers, idle_pc, clientVars, inputVars,
                   hostVars, auxVars>>

\* EOF or read error, waitpid, exit code.  A child whose exec failed exits
\* with 127.
PtyEof(status) ==
    /\ ~host_exited
    /\ pty.pc = "read"
    /\ proc.spawn = "exec_failed" => status = WExited(127)
    /\ pty' = [pty EXCEPT !.pc = "exit_bcast", !.wstatus = status,
                          !.code = ExitCodeOf(status)]
    /\ UNCHANGED <<sharedVars, lock_readers, bcast, idle_pc, clientVars, inputVars,
                   hostVars, auxVars>>

\* Broadcast EXIT.
PtyExitBcast ==
    /\ ~host_exited
    /\ pty.pc = "exit_bcast"
    /\ bcast' = Append(bcast, ExitFrame(pty.code))
    /\ pty' = [pty EXCEPT !.pc = "exit_meta"]
    /\ UNCHANGED <<sharedVars, lock_readers, idle_pc, clientVars, inputVars,
                   hostVars, auxVars>>

\* Final metadata under the write lock.
PtyExitMeta ==
    /\ ~host_exited
    /\ pty.pc = "exit_meta"
    /\ lock_readers = {}
    /\ exit_code' = <<pty.code>>
    /\ meta' = [meta EXCEPT !.status = "exited", !.exit_code = <<pty.code>>,
                            !.exited_at = <<proc.now>>]
    /\ proc' = [proc EXCEPT !.now = @ + 1]
    /\ disk' = meta'
    /\ meta_dirty' = FALSE
    /\ pty' = [pty EXCEPT !.pc = "done"]
    /\ UNCHANGED <<output_buffer, session_active, title, stream,
                   lock_readers, bcast, idle_pc, clientVars, inputVars,
                   host_exited, auxVars>>

\* An exit arm that fires as soon as EXIT was broadcast.
HostExit_AfterBroadcast ==
    /\ ~host_exited
    /\ pty.pc \in {"exit_meta", "done"}
    /\ host_exited' = TRUE
    /\ proc' = [proc EXCEPT !.socket = FALSE,
                            !.exit_status = <<IF pty.code >= 0 THEN 0 ELSE 1>>]
    /\ UNCHANGED <<sharedVars, lock_readers, bcast, pty, idle_pc, clientVars,
                   inputVars, auxVars>>

\* The exit arm of the accept loop: sleep 1 s, remove the socket, process::exit.
HostExit ==
    /\ ~host_exited
    /\ pty.pc = "done"
    /\ host_exited' = TRUE
    /\ proc' = [proc EXCEPT !.socket = FALSE,
                            !.exit_status = <<IF pty.code >= 0 THEN 0 ELSE 1>>]
    /\ UNCHANGED <<sharedVars, lock_readers, bcast, pty, idle_pc, clientVars,
                   inputVars, auxVars>>

(***************************************************************************)
(* Idle timer task                                                         *)
(***************************************************************************)
\* now_millis() - meta.last_activity at a tick: below the timeout, or not.
IdleTimes == {0, IDLE_TIMEOUT_MS}

\* An idle timer that announces idleness at every tick past the timeout,
\* whether or not the session is still marked active.
IdleTick_NoActiveGuard(idle_ms) ==
    /\ ~host_exited
    /\ idle_pc = "run"
    /\ lock_readers = {}
    /\ IF exit_code # << >>
       THEN /\ idle_pc' = "done"
            /\ UNCHANGED <<session_active, meta_dirty, bcast>>
       ELSE IF idle_ms >= IDLE_TIMEOUT_MS
            THEN /\ session_active' = FALSE
                 /\ meta_dirty' = TRUE
                 /\ bcast' = Append(bcast, SessionStateFrame(FALSE))
                 /\ UNCHANGED idle_pc
            ELSE UNCHANGED <<idle_pc, session_active, meta_dirty, bcast>>
    /\ UNCHANGED <<output_buffer, exit_code, title, meta, disk, stream,
                   lock_readers, pty, clientVars, inputVars, hostVars, auxVars>>

\* One tick of the idle timer under the write lock; idle_ms is the time since
\* the last child output.
IdleTick(idle_ms) ==
    /\ ~host_exited
    /\ idle_pc = "run"
    /\ lock_readers = {}
    /\ IF exit_code # << >>
       THEN /\ idle_pc' = "done"
            /\ UNCHANGED <<session_active, meta_dirty, bcast>>
       ELSE IF session_active /\ idle_ms >= IDLE_TIMEOUT_MS
            THEN /\ session_active' = FALSE
                 /\ meta_dirty' = TRUE
                 /\ bcast' = Append(bcast, SessionStateFrame(FALSE))
                 /\ UNCHANGED idle_pc
            ELSE UNCHANGED <<idle_pc, session_active, meta_dirty, bcast>>
    /\ UNCHANGED <<output_buffer, exit_code, title, meta, disk, stream,
                   lock_readers, pty, clientVars, inputVars, hostVars, auxVars>>

(***************************************************************************)
(* Accept loop and handle_client                                           *)
(***************************************************************************)
\* The RESUME offsets clients send.
ResumeOffsets == {NaN} \cup {F64(k) : k \in (0 - 1)..MaxOffset}
\* The body of the DATA frames client c sends.
ClientData(c) == <<48 + c>>
\* DATA frames a client sends.
MaxInput == 1

InputsFrom(c) ==
    Len(SelectSeq(input_q, LAMBDA m : m.from = c))
        + Len(SelectSeq(pty_in, LAMBDA m : m.from = c))

\* listener.accept(): subscribe to the broadcast channel, spawn the forwarder
\* and the client reader.
Accept(c) ==
    /\ ~host_exited
    /\ hs[c].pc = "none"
    /\ hs' = [hs EXCEPT ![c].pc = "first"]
    /\ fwd' = [fwd EXCEPT ![c] = [pc |-> "recv", next |-> Len(bcast),
                                  sub_at |-> Len(bcast)]]
    /\ UNCHANGED <<sharedVars, lock_readers, bcast, pty, idle_pc, sock, inputVars,
                   hostVars, auxVars>>

\* send_full_replay up to its call of send_replay: the snapshot under the
\* read lock.  first is the non-RESUME first frame, kept to be processed.
FullReplaySnapshot(c, first) ==
    hs' = [hs EXCEPT ![c].pc = "replay", ![c].kind = "full", ![c].first = first,
                     ![c].snap_total = output_buffer.total_written,
                     ![c].buf_data = OutputBuffer_read(output_buffer)]

\* handle_resume that takes the delta path for offset 0 ("< 0.0").
ResumeSnapshot_Lt(c, offset) ==
    LET delta == OutputBuffer_read_from(output_buffer, offset)
    IN  IF ~F64_lt(offset, 0) /\ delta.some
        THEN hs' = [hs EXCEPT ![c].pc = "replay", ![c].kind = "delta",
                              ![c].offset = offset,
                              ![c].snap_total = output_buffer.total_written,
                              ![c].buf_data = delta.v]
        ELSE FullReplaySnapshot(c, NoMsg)

\* handle_resume with an 8-byte body, up to its call of send_replay.
ResumeSnapshot(c, offset) ==
    LET delta == OutputBuffer_read_from(output_buffer, offset)
    IN  IF ~F64_le(offset, 0) /\ delta.some
        THEN hs' = [hs EXCEPT ![c].pc = "replay", ![c].kind = "delta",
                              ![c].offset = offset,
                              ![c].snap_total = output_buffer.total_written,
                              ![c].buf_data = delta.v]
        ELSE FullReplaySnapshot(c, NoMsg)

hsFrame == <<sharedVars, lock_readers, bcast, pty, idle_pc, fwd, sock, inputVars,
             hostVars, auxVars>>

\* First frame is RESUME with an 8-byte offset.
HsResume(c, offset) ==
    /\ ~host_exited
    /\ hs[c].pc = "first"
    /\ ResumeSnapshot(c, offset)
    /\ UNCHANGED hsFrame

\* First frame is RESUME with a body shorter than 8 bytes.
HsResumeShort(c) ==
    /\ ~host_exited
    /\ hs[c].pc = "first"
    /\ FullReplaySnapshot(c, NoMsg)
    /\ UNCHANGED hsFrame

\* First frame is not RESUME: full replay first, the frame is processed after.
HsOther(c) ==
    /\ ~host_exited
    /\ hs[c].pc = "first"
    /\ InputsFrom(c) < MaxInput
    /\ FullReplaySnapshot(c, DataFrame(ClientData(c)))
    /\ UNCHANGED hsFrame

\* RESUME_TIMEOUT_MS pass without a complete frame.
HsTimeout(c) ==
    /\ ~host_exited
    /\ hs[c].pc = "first"
    /\ FullReplaySnapshot(c, NoMsg)
    /\ UNCHANGED hsFrame

\* send_replay: strip, pick the replay frame, lock the writer for it.  With
\* no replay frame the writer is not locked.
HsReplayLock(c) ==
    /\ ~host_exited
    /\ hs[c].pc = "replay"
    /\ \E gz \in GzipResults(strip_terminal_queries(hs[c].buf_data)) :
         LET frames == ReplayFrames(hs[c].buf_data, gz)
         IN  IF frames = << >>
             THEN /\ hs' = [hs EXCEPT ![c].pc = "sync", ![c].buf_data = << >>]
                  /\ UNCHANGED sock
             ELSE /\ sock[c].mutex = "free"
                  /\ sock' = [sock EXCEPT ![c].mutex = "hs"]
                  /\ hs' = [hs EXCEPT ![c].pc = "replay_w", ![c].out_q = frames,
                                      ![c].buf_data = << >>]
    /\ UNCHANGED <<sharedVars, lock_readers, bcast, pty, idle_pc, fwd, inputVars,
                   hostVars, auxVars>>

\* The SYNC block with a SESSION_STATE that always says active.
SyncBlockFrames_AlwaysActive(total, t, active) ==
    <<SyncFrame(total)>>
        \o (IF t # << >> THEN <<TitleFrame(t[1])>> ELSE << >>)
        \o <<SessionStateFrame(TRUE)>>

\* The frames of the SYNC block for the state read under the lock.
SyncBlockFrames(total, t, active) ==
    <<SyncFrame(total)>>
        \o (IF t # << >> THEN <<TitleFrame(t[1])>> ELSE << >>)
        \o <<SessionStateFrame(active)>>

\* send_replay "Send SYNC": state.read().await.
HsSyncLock(c) ==
    /\ ~host_exited
    /\ hs[c].pc = "sync"
    /\ lock_readers' = lock_readers \cup {c}
    /\ hs' = [hs EXCEPT ![c].pc = "sync_m",
                        ![c].out_q = SyncBlockFrames(output_buffer.total_written,
                                                     title, session_active)]
    /\ UNCHANGED <<sharedVars, bcast, pty, idle_pc, fwd, sock, inputVars,
                   hostVars, auxVars>>

\* writer.lock().await while the state read lock is held (SYNC block, EXIT).
HsLockWriter(c) ==
    /\ ~host_exited
    /\ hs[c].pc \in {"sync_m", "exit_m"}
    /\ sock[c].mutex = "free"
    /\ sock' = [sock EXCEPT ![c].mutex = "hs"]
    /\ hs' = [hs EXCEPT ![c].pc = IF @ = "sync_m" THEN "sync_w" ELSE "exit_w"]
    /\ UNCHANGED <<sharedVars, lock_readers, bcast, pty, idle_pc, fwd, inputVars,
                   hostVars, auxVars>>

\* Where handle_client goes after the last frame of a block is written.
AfterBlock(c) ==
    CASE hs[c].pc = "replay_w" -> "sync"
      [] hs[c].pc = "sync_w" -> IF hs[c].first # NoMsg THEN "dispatch" ELSE "exit"
      [] hs[c].pc = "exit_w" -> "stream"

\* write_all completes when the socket buffer takes the frame: always for a
\* client that reads, up to SocketCapacity frames for one that has stopped.
SocketTakes(c) == ~sock[c].stalled \/ sock[c].unread < SocketCapacity
Unread(c) == IF sock[c].stalled THEN sock[c].unread + 1 ELSE 0

\* w.write_all(&frame).await of the handshake: one frame, when the socket
\* takes it.  After the last frame of the block the guards are dropped.
HsWrite(c) ==
    /\ ~host_exited
    /\ hs[c].pc \in {"replay_w", "sync_w", "exit_w"}
    /\ SocketTakes(c)
    /\ LET last == Len(hs[c].out_q) = 1
       IN  /\ sock' = [sock EXCEPT
                  ![c].sent = Append(@, [src |-> "hs", f |-> Head(hs[c].out_q)]),
                  ![c].unread = Unread(c),
                  ![c].mutex = IF last THEN "free" ELSE @]
           /\ hs' = [hs EXCEPT ![c].out_q = Tail(@),
                               ![c].pc = IF last THEN AfterBlock(c) ELSE @]
           /\ lock_readers' = IF last THEN lock_readers \ {c} ELSE lock_readers
    /\ UNCHANGED <<sharedVars, bcast, pty, idle_pc, fwd, inputVars, hostVars, auxVars>>

\* u16::from_be_bytes([hi, lo]).
u16_from_be_bytes(hi, lo) == hi * 256 + lo

\* process_client_message: DATA goes to input_tx, RESIZE with a body of at
\* least 4 bytes to resize_tx, every other type is ignored.
process_client_message(c, msg) ==
    /\ input_q' = IF msg.type = WS_MSG_DATA
                  THEN Append(input_q, [from |-> c, body |-> msg.body])
                  ELSE input_q
    /\ resize_q' = IF msg.type = WS_MSG_RESIZE /\ Len(msg.body) >= 4
                   THEN Append(resize_q, <<u16_from_be_bytes(msg.body[1], msg.body[2]),
                                           u16_from_be_bytes(msg.body[3], msg.body[4])>>)
                   ELSE resize_q

\* The non-RESUME first frame is processed after the full replay.
HsDispatch(c) ==
    /\ ~host_exited
    /\ hs[c].pc = "dispatch"
    /\ process_client_message(c, hs[c].first)
    /\ hs' = [hs EXCEPT ![c].pc = "exit", ![c].first = NoMsg]
    /\ UNCHANGED <<sharedVars, lock_readers, bcast, pty, idle_pc, fwd, sock, pty_in,
                   hostVars, rf, call, fs, taskVars>>

\* "Send exit if already exited": state.read().await, then exit_code.
HsExitLock(c) ==
    /\ ~host_exited
    /\ hs[c].pc = "exit"
    /\ IF exit_code # << >>
       THEN /\ lock_readers' = lock_readers \cup {c}
            /\ hs' = [hs EXCEPT ![c].pc = "exit_m", ![c].out_q = <<ExitFrame(exit_code[1])>>]
       ELSE /\ hs' = [hs EXCEPT ![c].pc = "stream"]
            /\ UNCHANGED lock_readers
    /\ UNCHANGED <<sharedVars, bcast, pty, idle_pc, fwd, sock, inputVars,
                   hostVars, auxVars>>

\* Steady state: the client sends a DATA frame and the reader dispatches it.
ClientSend(c) ==
    /\ ~host_exited
    /\ hs[c].pc = "stream"
    /\ InputsFrom(c) < MaxInput
    /\ process_client_message(c, DataFrame(ClientData(c)))
    /\ UNCHANGED <<sharedVars, lock_readers, bcast, pty, idle_pc, clientVars, pty_in,
                   hostVars, rf, call, fs, taskVars>>

\* A disconnect that ends the reader and leaves the forwarder running.
ClientDisconnect_KeepForwarder(c) ==
    /\ ~host_exited
    /\ hs[c].pc \in {"first", "stream"}
    /\ hs' = [hs EXCEPT ![c].pc = "closed"]
    /\ UNCHANGED <<sharedVars, lock_readers, bcast, pty, idle_pc, fwd, sock, inputVars,
                   hostVars, auxVars>>

\* The client closes its socket: read returns 0 (in read_first_message or in
\* the steady-state loop), handle_client returns, broadcast_handle.abort().
ClientDisconnect(c) ==
    /\ ~host_exited
    /\ hs[c].pc \in {"first", "stream"}
    /\ hs' = [hs EXCEPT ![c].pc = "closed"]
    /\ fwd' = [fwd EXCEPT ![c].pc = IF @ = "ended" THEN @ ELSE "aborted"]
    /\ sock' = [sock EXCEPT ![c].mutex = IF @ = "fwd" THEN "free" ELSE @]
    /\ UNCHANGED <<sharedVars, lock_readers, bcast, pty, idle_pc, inputVars,
                   hostVars, auxVars>>

\* The client stops reading its socket.
ClientStall(c) ==
    /\ ~host_exited
    /\ hs[c].pc \notin {"none", "closed"}
    /\ ~sock[c].stalled
    /\ sock' = [sock EXCEPT ![c].stalled = TRUE]
    /\ UNCHANGED <<sharedVars, lock_readers, bcast, pty, idle_pc, hs, fwd, inputVars,
                   hostVars, auxVars>>

(***************************************************************************)
(* Broadcast forwarder                                                     *)
(***************************************************************************)
\* A forwarder that treats RecvError::Lagged as "skip to the oldest retained
\* frame and go on".
FwdRecv_SkipLagged(c) ==
    /\ ~host_exited
    /\ fwd[c].pc = "recv"
    /\ Len(bcast) > fwd[c].next
    /\ fwd' = [fwd EXCEPT ![c].pc = "lock",
                          ![c].next = Max(@, Len(bcast) - BROADCAST_CAPACITY) + 1]
    /\ UNCHANGED <<sharedVars, lock_readers, bcast, pty, idle_pc, hs, sock, inputVars,
                   hostVars, auxVars>>

\* broadcast_rx.recv().await: the next frame, or Err(Lagged) when more than
\* the channel's capacity is pending, which ends the "while let Ok" loop.
FwdRecv(c) ==
    /\ ~host_exited
    /\ fwd[c].pc = "recv"
    /\ Len(bcast) > fwd[c].next
    /\ fwd' = IF Len(bcast) - fwd[c].next > BROADCAST_CAPACITY
              THEN [fwd EXCEPT ![c].pc = "ended"]
              ELSE [fwd EXCEPT ![c].pc = "lock", ![c].next = @ + 1]
    /\ UNCHANGED <<sharedVars, lock_readers, bcast, pty, idle_pc, hs, sock, inputVars,
                   hostVars, auxVars>>

\* writer_broadcast.lock().await
FwdLock(c) ==
    /\ ~host_exited
    /\ fwd[c].pc = "lock"
    /\ sock[c].mutex = "free"
    /\ sock' = [sock EXCEPT ![c].mutex = "fwd"]
    /\ fwd' = [fwd EXCEPT ![c].pc = "write"]
    /\ UNCHANGED <<sharedVars, lock_readers, bcast, pty, idle_pc, hs, inputVars,
                   hostVars, auxVars>>

\* w.write_all(&frame).await of the forwarder, when the socket takes the frame.
FwdWrite(c) ==
    /\ ~host_exited
    /\ fwd[c].pc = "write"
    /\ SocketTakes(c)
    /\ sock' = [sock EXCEPT
           ![c].sent = Append(@, [src |-> "bc", f |-> bcast[fwd[c].next]]),
           ![c].unread = Unread(c),
           ![c].mutex = "free"]
    /\ fwd' = [fwd EXCEPT ![c].pc = "recv"]
    /\ UNCHANGED <<sharedVars, lock_readers, bcast, pty, idle_pc, hs, inputVars,
                   hostVars, auxVars>>

(***************************************************************************)
(* PTY write task                                                          *)
(***************************************************************************)
\* A writer task that takes the newest queued input instead of the oldest.
PtyWrite_Lifo ==
    /\ ~host_exited
    /\ input_q # << >>
    /\ pty_in' = Append(pty_in, input_q[Len(input_q)])
    /\ input_q' = SubSeq(input_q, 1, Len(input_q) - 1)
    /\ UNCHANGED <<sharedVars, lock_readers, bcast, pty, idle_pc, clientVars,
                   hostVars, auxVars>>

\* input_rx.recv() and libc::write to the master.  Each element of pty_in is
\* one libc::write call; the call is taken to write all of its bytes (its
\* return value is not looked at by the task).
PtyWrite ==
    /\ ~host_exited
    /\ input_q # << >>
    /\ pty_in' = Append(pty_in, Head(input_q))
    /\ input_q' = Tail(input_q)
    /\ UNCHANGED <<sharedVars, lock_readers, bcast, pty, idle_pc, clientVars,
                   hostVars, auxVars>>

(***************************************************************************)
(* Startup, SIGTERM handler                                                *)
(***************************************************************************)
\* The session file before the host wrote it.
NoFile == [InitialMeta EXCEPT !.status = "absent"]

\* forkpty failed: spawn_pty returns Err, main writes the error metadata and
\* calls process::exit(127).  The socket is not bound yet.
SpawnForkFail ==
    /\ ~host_exited
    /\ pty.pc = "spawn"
    /\ disk' = [InitialMeta EXCEPT !.status = "exited", !.exit_code = <<127>>,
                                   !.exited_at = <<proc.now>>,
                                   !.error = <<"spawn">>]
    /\ host_exited' = TRUE
    /\ proc' = [proc EXCEPT !.spawn = "fork_failed", !.exit_status = <<127>>,
                            !.now = @ + 1]
    /\ UNCHANGED <<output_buffer, session_active, exit_code, title, meta, meta_dirty,
                   stream, lock_readers, bcast, pty, idle_pc, clientVars, inputVars, auxVars>>

\* forkpty succeeded: spawn_pty returns Ok in the parent whether or not the
\* child's execvp succeeds (on failure the child prints and exits with 127).
\* main writes the initial metadata, builds the shared state, binds the
\* socket and starts its tasks.
SpawnOk(exec_ok) ==
    /\ ~host_exited
    /\ pty.pc = "spawn"
    /\ disk' = InitialMeta
    /\ pty' = [pty EXCEPT !.pc = "read"]
    /\ proc' = [proc EXCEPT !.spawn = IF exec_ok THEN "ok" ELSE "exec_failed",
                            !.socket = TRUE, !.now = @ + 1]
    /\ UNCHANGED <<output_buffer, session_active, exit_code, title, meta, meta_dirty,
                   stream, lock_readers, bcast, idle_pc, clientVars, inputVars,
                   host_exited, auxVars>>

\* SIGTERM is delivered: recv() returns and the handler signals the child.
SigtermRecv ==
    /\ ~host_exited
    /\ pty.pc # "spawn"
    /\ proc.sig = "none"
    /\ proc' = [proc EXCEPT !.sig = "killed", !.kill_sent = TRUE]
    /\ UNCHANGED <<sharedVars, lock_readers, bcast, pty, idle_pc, clientVars,
                   inputVars, host_exited, auxVars>>

\* The handler's metadata block under the write lock.
SigtermMeta ==
    /\ ~host_exited
    /\ proc.sig = "killed"
    /\ lock_readers = {}
    /\ meta' = [meta EXCEPT !.status = "exited", !.exit_code = <<0 - 1>>,
                            !.exited_at = <<proc.now>>]
    /\ disk' = meta'
    /\ proc' = [proc EXCEPT !.sig = "written", !.now = @ + 1]
    /\ UNCHANGED <<output_buffer, session_active, exit_code, title, meta_dirty,
                   stream, lock_readers, bcast, pty, idle_pc, clientVars, inputVars,
                   host_exited, auxVars>>

\* A handler that exits without removing the socket file.
SigtermExit_KeepSocket ==
    /\ ~host_exited
    /\ proc.sig = "written"
    /\ host_exited' = TRUE
    /\ proc' = [proc EXCEPT !.sig = "exited", !.exit_status = <<0>>]
    /\ UNCHANGED <<sharedVars, lock_readers, bcast, pty, idle_pc, clientVars,
                   inputVars, auxVars>>

\* The end of the handler: remove the socket file, process::exit(0).
SigtermExit ==
    /\ ~host_exited
    /\ proc.sig = "written"
    /\ host_exited' = TRUE
    /\ proc' = [proc EXCEPT !.sig = "exited", !.socket = FALSE,
                            !.exit_status = <<0>>]
    /\ UNCHANGED <<sharedVars, lock_readers, bcast, pty, idle_pc, clientVars,
                   inputVars, auxVars>>

PtyNext ==
    \/ \E chunk \in PtyChunks : PtyRead(chunk)
    \/ PtyTitle
    \/ PtyTitleBcast
    \/ PtyUpdate
    \/ PtyData
    \/ \E status \in ExitStatuses : PtyEof(status)
    \/ PtyExitBcast
    \/ PtyExitMeta
    \/ HostExit

HandshakeNext(c) ==
    \/ Accept(c)
    \/ \E offset \in ResumeOffsets : HsResume(c, offset)
    \/ HsResumeShort(c)
    \/ HsOther(c)
    \/ HsTimeout(c)
    \/ HsReplayLock(c)
    \/ HsSyncLock(c)
    \/ HsLockWriter(c)
    \/ HsWrite(c)
    \/ HsDispatch(c)
    \/ HsExitLock(c)
    \/ ClientDisconnect(c)

ForwarderNext(c) ==
    \/ FwdRecv(c)
    \/ FwdLock(c)
    \/ FwdWrite(c)

\* The PTY read task, the handshakes and the forwarders, with clients that
\* keep reading their sockets.
Next ==
    \/ PtyNext
    \/ \E c \in Clients : HandshakeNext(c) \/ ForwarderNext(c)

Spec == Init /\ [][Next]_vars

\* The PTY read task, the idle timer and the handshakes.  The forwarders,
\* which change neither the shared state nor a handshake's locals, do not run.
NextIdle ==
    \/ PtyNext
    \/ \E idle_ms \in IdleTimes : IdleTick(idle_ms)
    \/ \E c \in Clients : HandshakeNext(c)

SpecIdle == Init /\ [][NextIdle]_vars

\* Spec with clients that may stop reading their sockets and that send input
\* in steady state.
NextSlow ==
    \/ Next
    \/ PtyWrite
    \/ \E c \in Clients : ClientStall(c) \/ ClientSend(c)

SpecSlow == Init /\ [][NextSlow]_vars

(***************************************************************************)
(* Host lifecycle: startup, child output, child exit, SIGTERM; no clients  *)
(***************************************************************************)
\* The wait statuses of the child.
WaitStatuses == {WExited(0), WExited(42), WExited(127), WSignaled(15), WOther}

\* main before spawn_pty.
InitLife ==
    /\ output_buffer = OutputBuffer_new(BUFFER_SIZE)
    /\ session_active = TRUE
    /\ exit_code = << >>
    /\ title = << >>
    /\ meta = InitialMeta
    /\ meta_dirty = FALSE
    /\ disk = NoFile
    /\ lock_readers = {}
    /\ bcast = << >>
    /\ pty = [pc |-> "spawn", chunk |-> << >>, chunks_read |-> 0,
              wstatus |-> NoStatus, code |-> 0]
    /\ idle_pc = "run"
    /\ hs = [c \in Clients |->
               [pc |-> "none", kind |-> "none", offset |-> F64(0), first |-> NoMsg,
                snap_total |-> 0, buf_data |-> << >>, out_q |-> << >>]]
    /\ fwd = [c \in Clients |-> [pc |-> "none", next |-> 0, sub_at |-> 0]]
    /\ sock = [c \in Clients |->
                 [mutex |-> "free", sent |-> << >>, stalled |-> FALSE, unread |-> 0]]
    /\ input_q = << >>
    /\ pty_in = << >>
    /\ host_exited = FALSE
    /\ proc = [spawn |-> "pending", sig |-> "none", kill_sent |-> FALSE,
               socket |-> FALSE, exit_status |-> << >>, now |-> 0]
    /\ stream = << >>
    /\ rf = NoRead
    /\ call = NoCall
    /\ fs = NoWrite
    /\ InitTasks

NextLife ==
    \/ SpawnForkFail
    \/ \E exec_ok \in BOOLEAN : SpawnOk(exec_ok)
    \/ \E chunk \in PtyChunks : PtyRead(chunk)
    \/ PtyTitle
    \/ PtyTitleBcast
    \/ PtyUpdate
    \/ PtyData
    \/ \E status \in WaitStatuses : PtyEof(status)
    \/ PtyExitBcast
    \/ PtyExitMeta
    \/ HostExit
    \/ SigtermRecv
    \/ SigtermMeta
    \/ SigtermExit

SpecLife == InitLife /\ [][NextLife]_vars

(***************************************************************************)
(* Input path alone: several connections in their steady-state loop        *)
(***************************************************************************)
\* Connections that are past the handshake and send DATA frames.
Senders == {1, 2}
\* DATA frames one connection sends.
MaxSends == 3

\* The k-th DATA body of connection s (k counts from 0): two bytes, the
\* second one numbering the frame.
SendBody(s, k) == <<48 + s, k>>

\* One pass of the steady-state loop of handle_client for connection s: a
\* complete DATA frame is parsed from pending and process_client_message
\* sends its body on input_tx.
InputSend(s) ==
    /\ ~host_exited
    /\ InputsFrom(s) < MaxSends
    /\ process_client_message(s, DataFrame(SendBody(s, InputsFrom(s))))
    /\ UNCHANGED <<sharedVars, lock_readers, bcast, pty, idle_pc, clientVars, pty_in,
                   hostVars, rf, call, fs, taskVars>>

NextInput ==
    \/ \E s \in Senders : InputSend(s)
    \/ PtyWrite

SpecInput == Init /\ [][NextInput]_vars


(***************************************************************************)
(* What a client receives                                                  *)
(***************************************************************************)
IsPrefix(a, b) == Len(a) <= Len(b) /\ SubSeq(b, 1, Len(a)) = a

\* The frames the handshake wrote to c's socket, and those its forwarder wrote.
HsFrames(c) == SelectSeq(sock[c].sent, LAMBDA e : e.src = "hs")
BcFrames(c) == SelectSeq(sock[c].sent, LAMBDA e : e.src = "bc")

RECURSIVE Bodies(_, _)
\* The bodies of the frames of es whose type is in types, concatenated.
Bodies(es, types) ==
    IF es = << >> THEN << >>
    ELSE (IF Head(es).f.type \in types THEN Head(es).f.body ELSE << >>)
             \o Bodies(Tail(es), types)

ReplayTypes == {WS_MSG_BUFFER_REPLAY, WS_MSG_BUFFER_REPLAY_GZ}

\* The replay bytes followed by the bodies of the DATA frames c received.
Received(c) == Bodies(HsFrames(c), ReplayTypes) \o Bodies(BcFrames(c), {WS_MSG_DATA})

Types(es) == [i \in 1..Len(es) |-> es[i].f.type]

\* C1: a client whose handshake was a RESUME(k) answered with the delta from k
\* (k > 0, inside the retained window) has received, as replay bytes followed
\* by DATA bodies, a prefix of the PTY stream from offset k: nothing twice,
\* nothing missing in between.
C1_DeltaThenDataIsStreamFromK ==
    \A c \in Clients :
        (hs[c].kind = "delta" /\ F64_ge(hs[c].offset, 1) /\ hs[c].pc = "stream")
            => IsPrefix(Received(c), SliceFrom(stream, hs[c].offset[1]))

\* C2: on every socket, no frame written by the handshake follows a frame
\* taken from the broadcast channel.
C2_HandshakeBeforeBroadcast ==
    \A c \in Clients :
        \A i, j \in 1..Len(sock[c].sent) :
            (i < j /\ sock[c].sent[i].src = "bc") => sock[c].sent[j].src # "hs"

\* C3: the SYNC frame of a handshake carries total_written of the snapshot
\* its replay bytes were selected from.
C3_SyncIsSnapshotTotal ==
    \A c \in Clients :
        \A i \in 1..Len(sock[c].sent) :
            LET e == sock[c].sent[i]
            IN  (e.src = "hs" /\ e.f.type = WS_MSG_SYNC) => e.f.val = hs[c].snap_total

SyncBlockShapes ==
    {r \o <<WS_MSG_SYNC>> \o t \o <<WS_MSG_SESSION_STATE>> :
        r \in {<< >>, <<WS_MSG_BUFFER_REPLAY>>, <<WS_MSG_BUFFER_REPLAY_GZ>>},
        t \in {<< >>, <<WS_MSG_TITLE>>}}

\* What the handshake of c has written and what it still holds in out_q.
HsAll(c) == [i \in 1..(Len(HsFrames(c)) + Len(hs[c].out_q)) |->
               IF i <= Len(HsFrames(c)) THEN HsFrames(c)[i].f
               ELSE hs[c].out_q[i - Len(HsFrames(c))]]

\* The state part of C5, for one client.
C5_Shape(c) ==
    /\ \* While the SYNC block is being written: its frames are SYNC, TITLE iff
       \* a title is set, one SESSION_STATE with 1 iff session_active, after at
       \* most one replay frame.
       hs[c].pc \in {"sync_m", "sync_w"} =>
           \E r \in {0, 1} :
               /\ Len(HsAll(c)) >= r + 2
               /\ r = 1 => HsAll(c)[1].type \in ReplayTypes
               /\ SubSeq(HsAll(c), r + 1, Len(HsAll(c)))
                    = <<SyncFrame(output_buffer.total_written)>>
                        \o (IF title # << >> THEN <<TitleFrame(title[1])>> ELSE << >>)
                        \o <<SessionStateFrame(session_active)>>
    /\ \* After it, until the EXIT check has been made.
       hs[c].pc \in {"dispatch", "exit"} => Types(HsFrames(c)) \in SyncBlockShapes
    /\ \* EXIT, when sent, is the last frame and carries the exit code.
       hs[c].pc \in {"exit_m", "exit_w"} =>
           /\ exit_code # << >>
           /\ hs[c].out_q = <<ExitFrame(exit_code[1])>>
           /\ Types(HsFrames(c)) \in SyncBlockShapes
    /\ hs[c].pc = "stream" =>
           \/ Types(HsFrames(c)) \in SyncBlockShapes
           \/ /\ exit_code # << >>
              /\ HsFrames(c)[Len(HsFrames(c))].f = ExitFrame(exit_code[1])
              /\ SubSeq(Types(HsFrames(c)), 1, Len(HsFrames(c)) - 1) \in SyncBlockShapes

C6_ForwardedIsContiguousRun ==
    \A c \in Clients :
        /\ fwd[c].sub_at + Len(BcFrames(c)) <= Len(bcast)
        /\ [i \in 1..Len(BcFrames(c)) |-> BcFrames(c)[i].f]
             = SubSeq(bcast, fwd[c].sub_at + 1, fwd[c].sub_at + Len(BcFrames(c)))

\* A client that subscribed after the first frame was published and has been
\* forwarded two frames.
C6_Witness ==
    \E c \in Clients :
        /\ fwd[c].sub_at >= 1
        /\ Len(BcFrames(c)) >= 2

\* C7: once a client's forwarder has ended on an overflow of its broadcast
\* queue, the host dispatches no further input from that client.
C7_OverflowedClientSendsNoInput ==
    [][\A c \in Clients : fwd[c].pc = "ended" => ~ClientSend(c)]_vars

\* The writes of c to its socket cannot complete: the client has stopped
\* reading and the socket buffer is full.
SocketFull(c) == sock[c].stalled /\ sock[c].unread >= SocketCapacity

\* The handshake of c holds the state lock for reading and waits for the
\* socket: in write_all, or for the writer mutex held by a forwarder that is
\* itself in write_all.
HoldsStateLockOnSocket(c) ==
    /\ c \in lock_readers
    /\ SocketFull(c)
    /\ \/ hs[c].pc \in {"sync_w", "exit_w"}
       \/ hs[c].pc \in {"sync_m", "exit_m"} /\ sock[c].mutex = "fwd"

\* C8: the PTY reader never waits for the state lock behind a client that
\* has stopped reading its socket.
C8_StalledClientNeverBlocksReader ==
    ~(\E c \in Clients :
        /\ HoldsStateLockOnSocket(c)
        /\ pty.pc \in {"title", "update", "exit_meta"})

(***************************************************************************)
(* Ring-buffer specification: arbitrary writes and offset reads.           *)
(***************************************************************************)
RingBytes == {NL, 97}

RECURSIVE SeqsUpTo(_, _)
SeqsUpTo(S, n) ==
    IF n = 0 THEN {<< >>}
    ELSE LET shorter == SeqsUpTo(S, n - 1)
         IN  shorter \cup {Append(s, b) : s \in {t \in shorter : Len(t) = n - 1}, b \in S}

RingWrites == SeqsUpTo(RingBytes, BUFFER_SIZE + 1)
RingOffsets == (0 - 1)..(MaxTotal + 1)

ringOnly == <<session_active, exit_code, title, meta, meta_dirty, disk,
              lock_readers, bcast, pty, idle_pc, hs, fwd, sock, input_q, pty_in,
              hostVars, call, fs, resize_q, taskVars>>

RingWrite(data) ==
    /\ Len(stream) + Len(data) <= MaxTotal
    /\ output_buffer' = OutputBuffer_write(output_buffer, data)
    /\ stream' = stream \o data
    /\ rf' = NoRead
    /\ UNCHANGED ringOnly

RingReadFrom(offset) ==
    /\ rf' = [called |-> TRUE, offset |-> offset,
              result |-> OutputBuffer_read_from(output_buffer, F64(offset)),
              read |-> None]
    /\ UNCHANGED <<output_buffer, stream>>
    /\ UNCHANGED ringOnly

RingRead ==
    /\ rf' = [NoRead EXCEPT !.read = Some(OutputBuffer_read(output_buffer))]
    /\ UNCHANGED <<output_buffer, stream>>
    /\ UNCHANGED ringOnly

NextRing ==
    \/ \E data \in RingWrites : RingWrite(data)
    \/ \E offset \in RingOffsets : RingReadFrom(offset)
    \/ RingRead

SpecRing == Init /\ [][NextRing]_vars

\* The last n elements of s.
LastN(s, n) == SubSeq(s, Len(s) - n + 1, Len(s))

\* C9: after any sequence of writes, read_raw is exactly the last
\* min(total_written, C) bytes of everything written, in stream order, and
\* total_written counts every byte written.
C9_ReadRawIsStreamTail ==
    /\ output_buffer.total_written = Len(stream)
    /\ OutputBuffer_read_raw(output_buffer)
         = LastN(stream, Min(output_buffer.total_written, BUFFER_SIZE))

\* C9 witness: one write longer than the capacity has happened on an empty
\* buffer (the buffer holds the last C bytes of it), or a write has wrapped
\* around the end of the backing array.
C9_Witness ==
    /\ output_buffer.filled
    /\ Len(stream) > BUFFER_SIZE
    /\ output_buffer.write_pos > 0
    /\ OutputBuffer_read_raw(output_buffer) = LastN(stream, BUFFER_SIZE)

\* C10: read_from(offset) returns empty when offset >= total_written, the
\* too-old indication when offset < total_written - size, and otherwise the
\* suffix of the linearized contents of length total_written - offset (which
\* is the stream from that offset on).
C10_ReadFromCases ==
    rf.called =>
        LET total == output_buffer.total_written
            size == OutputBuffer_size(output_buffer)
        IN  IF rf.offset >= total THEN rf.result = Some(<< >>)
            ELSE IF rf.offset < total - size THEN rf.result = None
            ELSE /\ rf.result.some
                 /\ rf.result.v = LastN(OutputBuffer_read_raw(output_buffer), total - rf.offset)
                 /\ rf.result.v = SliceFrom(stream, rf.offset)

\* C10 witness: a delta read strictly inside a wrapped buffer.
C10_Witness ==
    /\ rf.called
    /\ output_buffer.filled
    /\ output_buffer.write_pos > 0
    /\ rf.offset > output_buffer.total_written - BUFFER_SIZE
    /\ rf.offset < output_buffer.total_written
    /\ rf.result.some
    /\ Len(rf.result.v) = output_buffer.total_written - rf.offset

\* C11: after every write 0 <= write_pos < C, the logical size is C if filled
\* else write_pos and equals min(total_written, C), and total_written is the
\* sum of the lengths of all writes; when exactly C bytes have been written
\* (in one write into the empty buffer, or in several) write_pos = 0 and
\* filled = true.
C11_WriteInvariants ==
    LET ob == output_buffer
    IN  /\ ob.max_size = BUFFER_SIZE
        /\ 0 <= ob.write_pos /\ ob.write_pos < BUFFER_SIZE
        /\ OutputBuffer_size(ob) = (IF ob.filled THEN BUFFER_SIZE ELSE ob.write_pos)
        /\ ob.total_written = Len(stream)
        /\ OutputBuffer_size(ob) = Min(ob.total_written, BUFFER_SIZE)
        /\ Len(stream) = BUFFER_SIZE => ob.write_pos = 0 /\ ob.filled

\* Exactly C bytes have been written and the buffer is full at position 0.
C11_Witness ==
    /\ Len(stream) = BUFFER_SIZE
    /\ output_buffer.write_pos = 0
    /\ output_buffer.filled
    /\ OutputBuffer_size(output_buffer) = BUFFER_SIZE

\* The first newline of s at 1-based index k.
FirstNewlineAt(s, k) ==
    /\ k \in 1..Len(s)
    /\ s[k] = NL
    /\ \A j \in 1..(k - 1) : s[j] # NL

\* C12: the full-replay read returns the linearized contents unchanged when
\* the buffer has never wrapped; when it has wrapped and the first byte is
\* not a newline it drops the prefix up to and including the first newline;
\* when it has wrapped and the first byte is a newline, or there is no
\* newline, it returns the contents unchanged.
C12_ReadSanitizesWrapped ==
    rf.read.some =>
        LET raw == OutputBuffer_read_raw(output_buffer)
            r == rf.read.v
        IN  IF ~output_buffer.filled THEN r = raw
            ELSE IF \E k \in 2..Len(raw) : FirstNewlineAt(raw, k)
                 THEN \E k \in 2..Len(raw) :
                          FirstNewlineAt(raw, k) /\ r = SubSeq(raw, k + 1, Len(raw))
                 ELSE r = raw

\* A read of a wrapped buffer whose first newline is not the first byte.
C12_Witness ==
    /\ rf.read.some
    /\ output_buffer.filled
    /\ \E k \in 2..BUFFER_SIZE : FirstNewlineAt(OutputBuffer_read_raw(output_buffer), k)
    /\ rf.read.v # OutputBuffer_read_raw(output_buffer)

\* C13: a RESUME whose offset is negative or NaN selects the bytes of the
\* full replay, the same bytes a RESUME(0) selects in that state.
C13_NegativeOrNaNIsFullReplay ==
    [][\A c \in Clients :
         \A k \in {NaN, F64(0 - 1)} :
             HsResume(c, k) => hs'[c].buf_data = OutputBuffer_read(output_buffer)]_vars

(***************************************************************************)
(* C14: input order                                                        *)
(***************************************************************************)
\* What was written to the master on behalf of connection s, one element per
\* libc::write call.
WrittenFrom(s) == SelectSeq(pty_in, LAMBDA m : m.from = s)

\* C14: the bodies of the DATA frames of one connection reach the PTY master
\* in the order the connection sent them; every write to the master is one
\* whole body taken from the input channel by the writer task, so the bytes
\* of two connections' frames are never mixed inside one write.
C14_InputOrderPerClient ==
    /\ \A s \in Senders : \A j \in 1..Len(WrittenFrom(s)) :
           WrittenFrom(s)[j].body = SendBody(s, j - 1)
    /\ \A i \in 1..Len(pty_in) :
           \E s \in Senders : \E k \in 0..(MaxSends - 1) :
               pty_in[i] = [from |-> s, body |-> SendBody(s, k)]
    /\ \A s \in Senders : \A j \in 1..Len(SelectSeq(input_q, LAMBDA m : m.from = s)) :
           SelectSeq(input_q, LAMBDA m : m.from = s)[j].body
               = SendBody(s, Len(WrittenFrom(s)) + j - 1)

\* Both connections had frames written, alternating on the master.
C14_Witness ==
    /\ Len(pty_in) >= 4
    /\ pty_in[1].from = 1 /\ pty_in[2].from = 2
    /\ pty_in[3].from = 1 /\ pty_in[4].from = 2
    /\ Len(WrittenFrom(1)) >= 2 /\ Len(WrittenFrom(2)) >= 2
(***************************************************************************)
(* C15: SESSION_STATE on the broadcast channel                             *)
(***************************************************************************)
\* The values of the SESSION_STATE frames sent on the broadcast channel.
SessionStates == SelectSeq(bcast, LAMBDA f : f.type = WS_MSG_SESSION_STATE)

\* C15: the SESSION_STATE frames on the broadcast channel alternate 0x00,
\* 0x01, 0x00, .. starting with 0x00 (one 0x00 per active-to-idle transition,
\* one 0x01 at the next child output), and session_active equals the value
\* of the last one broadcast, true before the first.
C15_SessionStateAlternates ==
    /\ \A i \in 1..Len(SessionStates) :
           SessionStates[i].val = (IF i % 2 = 1 THEN 0 ELSE 1)
    /\ session_active = (Len(SessionStates) % 2 = 0)

\* Idle, active again on output, idle again.
C15_Witness ==
    /\ Len(SessionStates) >= 3
    /\ ~session_active
(***************************************************************************)
(* C16: child exit sequence                                                *)
(***************************************************************************)
\* The EXIT frames sent on the broadcast channel.
ExitFrames == SelectSeq(bcast, LAMBDA f : f.type = WS_MSG_EXIT)

\* The process ended through the exit arm of the accept loop.
ExitedByMainLoop ==
    host_exited /\ proc.sig # "exited" /\ proc.spawn # "fork_failed"

\* C16: at EOF or a read error the reader first reaps the child, then
\* broadcasts EXIT, then writes the final metadata (status exited, exit code,
\* exited_at); the main loop removes the socket and ends the process only
\* after the reader has finished.
C16_ExitSequence ==
    /\ pty.pc \in {"spawn", "read", "title", "title_bcast", "update", "data"}
          => pty.wstatus = NoStatus /\ ExitFrames = << >> /\ exit_code = << >>
    /\ pty.pc = "exit_bcast"
          => pty.wstatus # NoStatus /\ ExitFrames = << >> /\ exit_code = << >>
    /\ pty.pc = "exit_meta"
          => pty.wstatus # NoStatus /\ Len(ExitFrames) = 1 /\ exit_code = << >>
    /\ pty.pc = "done"
          => /\ pty.wstatus # NoStatus /\ Len(ExitFrames) = 1
             /\ exit_code = <<pty.code>>
             /\ disk.status = "exited"
             /\ disk.exit_code # << >>
             /\ disk.exited_at # << >>
    /\ ExitedByMainLoop
          => pty.pc = "done" /\ ~proc.socket /\ disk.status = "exited"

\* The child exited, the reader finished and the main loop ended the process.
C16_Witness ==
    /\ ExitedByMainLoop
    /\ proc.sig = "none"
    /\ pty.pc = "done"
    /\ Len(ExitFrames) = 1
    /\ disk.exit_code = <<42>>
(***************************************************************************)
(* C17: exit code                                                          *)
(***************************************************************************)
\* The exit code that belongs to a wait status: the exit status of a normal
\* exit, 128 + the signal number of a death by signal, -1 otherwise.
CodeForStatus(status) ==
    CASE status.kind = "exited" -> status.n
      [] status.kind = "signaled" -> 128 + status.n
      [] OTHER -> 0 - 1

\* C17: the EXIT frame on the broadcast channel and the exit code the reaper
\* stores (SharedState.exit_code, metadata in memory and on disk) are the
\* child's exit status on normal exit, 128 + signal on death by signal and
\* -1 otherwise, and the frame and the metadata of one reap agree.
C17_ExitCodeFromStatus ==
    [][/\ \A i \in 1..Len(ExitFrames') : ExitFrames'[i].val = CodeForStatus(pty'.wstatus)
       /\ exit_code' # << >> => exit_code' = <<CodeForStatus(pty'.wstatus)>>
       /\ (pty.pc = "exit_meta" /\ pty'.pc = "done")
             => /\ meta'.exit_code = <<CodeForStatus(pty.wstatus)>>
                /\ disk'.exit_code = <<CodeForStatus(pty.wstatus)>>
                /\ disk'.exit_code = <<ExitFrames[1].val>>]_vars

\* A child killed by signal 15 was reaped: EXIT 143 and exit code 143 on disk.
C17_Witness ==
    /\ pty.pc = "done"
    /\ pty.wstatus = WSignaled(15)
    /\ ExitFrames = <<ExitFrame(143)>>
    /\ disk.exit_code = <<143>>
(***************************************************************************)
(* C18: SIGTERM                                                            *)
(***************************************************************************)
\* C18: the SIGTERM handler signals the child, then writes the metadata with
\* status exited, exit code -1 and exited_at while the socket file is still
\* there, then removes the socket file and exits with code 0; whenever the
\* process has exited after a SIGTERM, the metadata file shows status exited
\* and the socket file is gone.
C18_SigtermSequence ==
    [][/\ (proc.sig = "none" /\ proc'.sig = "killed")
             => proc'.kill_sent /\ proc'.socket /\ ~host_exited'
       /\ (proc.sig = "killed" /\ proc'.sig = "written")
             => /\ proc.kill_sent
                /\ disk'.status = "exited"
                /\ disk'.exit_code = <<0 - 1>>
                /\ disk'.exited_at # << >>
                /\ proc'.socket /\ ~host_exited'
       /\ (proc.sig = "written" /\ proc'.sig = "exited")
             => /\ host_exited'
                /\ ~proc'.socket
                /\ proc'.exit_status = <<0>>
       /\ (host_exited' /\ proc'.sig # "none")
             => disk'.status = "exited" /\ ~proc'.socket]_vars

\* SIGTERM while the child was running: the handler ran to its end.
C18_Witness ==
    /\ host_exited
    /\ proc.sig = "exited"
    /\ pty.pc = "read"
    /\ proc.exit_status = <<0>>
    /\ disk.exit_code = <<0 - 1>>
    /\ ~proc.socket
(***************************************************************************)
(* C19: metadata finalized once                                            *)
(***************************************************************************)
\* C19: the metadata is finalized once: after exit_code and exited_at have
\* been set, in memory and in the file, no later step changes them, whether
\* the SIGTERM handler or the reaper set them first.
C19_FinalizedOnce ==
    [][/\ meta.exit_code # << >>
             => meta'.exit_code = meta.exit_code /\ meta'.exited_at = meta.exited_at
       /\ disk.exit_code # << >>
             => disk'.exit_code = disk.exit_code /\ disk'.exited_at = disk.exited_at]_vars
(***************************************************************************)
(* C20: spawn failure                                                      *)
(***************************************************************************)
\* C20: when the spawn failed, by a failed fork or by a failed exec, and no
\* SIGTERM was received, the host leaves metadata with status exited, exit
\* code 127 and the error field set, and its own exit code is 127.
C20_SpawnFailureIs127 ==
    (host_exited /\ proc.spawn \in {"fork_failed", "exec_failed"} /\ proc.sig = "none")
        => /\ disk.status = "exited"
           /\ disk.exit_code = <<127>>
           /\ disk.error # << >>
           /\ proc.exit_status = <<127>>
(***************************************************************************)
(* The session file: fs::write and atomic_write_json                       *)
(***************************************************************************)
\* Versions of the metadata written after the initial one.
MaxVersions == 4

IsCompleteJson(bytes) ==
    Len(bytes) = 3 /\ bytes[1] = 123 /\ bytes[Len(bytes)] = 125

fsOnly == <<output_buffer, session_active, exit_code, title, meta, meta_dirty, disk,
            lock_readers, bcast, pty, idle_pc, hs, fwd, sock, input_q, pty_in,
            host_exited, proc, stream, rf, call, resize_q, taskVars>>

\* fs::write(path, json), first half: the file is created or truncated.
\* "start" is main at the initial write (or at the spawn-failure write, after
\* which the process exits).
FsInitialCreate(spawn_ok) ==
    /\ fs.pc = "start"
    /\ fs' = [fs EXCEPT !.file = Some(<< >>), !.json = Json(0),
                        !.pc = IF spawn_ok THEN "init_write" ELSE "fail_write"]
    /\ UNCHANGED fsOnly

\* fs::write, second half: the bytes are written.
FsInitialWrite ==
    /\ fs.pc \in {"init_write", "fail_write"}
    /\ fs' = [fs EXCEPT !.file = Some(fs.json),
                        !.pc = IF fs.pc = "init_write" THEN "idle" ELSE "exited"]
    /\ UNCHANGED fsOnly

\* atomic_write_json is called (title flush, periodic flush, final write or
\* SIGTERM write; each under the state write lock, so one at a time):
\* serde_json::to_string, then fs::write(tmp) creates the temporary file, or
\* fails to.
AtomicBegin(v, tmp_ok) ==
    /\ fs.pc = "idle"
    /\ fs' = IF tmp_ok
             THEN [fs EXCEPT !.json = Json(v), !.tmp = Some(<< >>), !.pc = "tmp_write"]
             ELSE [fs EXCEPT !.json = Json(v), !.pc = "direct"]
    /\ UNCHANGED fsOnly

\* fs::write(tmp) writes the bytes.
AtomicTmpWrite ==
    /\ fs.pc = "tmp_write"
    /\ fs' = [fs EXCEPT !.tmp = Some(fs.json), !.pc = "rename"]
    /\ UNCHANGED fsOnly

\* fs::rename(tmp, path): replaces the file in one step, or fails.
AtomicRename(rename_ok) ==
    /\ fs.pc = "rename"
    /\ fs' = IF rename_ok
             THEN [fs EXCEPT !.file = fs.tmp, !.tmp = None, !.pc = "idle"]
             ELSE [fs EXCEPT !.pc = "direct"]
    /\ UNCHANGED fsOnly

\* "Fallback: direct write", first half: the file is truncated.
AtomicDirectCreate ==
    /\ fs.pc = "direct"
    /\ fs' = [fs EXCEPT !.file = Some(<< >>), !.pc = "direct_write"]
    /\ UNCHANGED fsOnly

\* "Fallback: direct write", second half.
AtomicDirectWrite ==
    /\ fs.pc = "direct_write"
    /\ fs' = [fs EXCEPT !.file = Some(fs.json), !.pc = "idle"]
    /\ UNCHANGED fsOnly

NextFile ==
    \/ \E spawn_ok \in BOOLEAN : FsInitialCreate(spawn_ok)
    \/ FsInitialWrite
    \/ \E v \in 1..MaxVersions : \E tmp_ok \in BOOLEAN : AtomicBegin(v, tmp_ok)
    \/ AtomicTmpWrite
    \/ \E rename_ok \in BOOLEAN : AtomicRename(rename_ok)
    \/ AtomicDirectCreate
    \/ AtomicDirectWrite

SpecFile == InitLife /\ [][NextFile]_vars

\* C21: whenever the session file exists, a reader finds a complete
\* document in it: the previous version or the new one, never an empty or
\* partly written file; at the initial write, at the spawn-failure write and
\* at every atomic_write_json.
C21_ReaderSeesCompleteDocument ==
    fs.file.some => IsCompleteJson(fs.file.v)

(***************************************************************************)
(* strip_terminal_queries on arbitrary byte strings                        *)
(***************************************************************************)
\* Input bytes: ESC, "[", "6", "?", "c", "n".
StripBytes == {ESC, 91, 54, 63, 99, 110}
\* Longest input.
MaxStripLen == 6

BytesUpTo(S, n) == UNION {[1..k -> S] : k \in 0..n}

callOnly == <<output_buffer, session_active, exit_code, title, meta, meta_dirty, disk,
              lock_readers, bcast, pty, idle_pc, hs, fwd, sock, input_q, pty_in,
              host_exited, proc, stream, rf, fs, resize_q, taskVars>>

\* An input is chosen; nothing is called yet.
InitStrip ==
    /\ InitMain
    /\ call \in {[NoCall EXCEPT !.input = data] : data \in BytesUpTo(StripBytes, MaxStripLen)}

\* strip_terminal_queries(data) is called on the chosen input.
StripCall ==
    /\ call.fn = "none"
    /\ call' = [call EXCEPT !.fn = "strip_terminal_queries",
                            !.output = strip_terminal_queries(call.input)]
    /\ UNCHANGED callOnly

NextStrip == StripCall

SpecStrip == InitStrip /\ [][NextStrip]_vars

\* The DSR and DA queries: ESC [ 6 n, ESC [ ? 6 n, ESC [ c, ESC [ > c,
\* ESC [ = c, ESC [ 0 c.
Queries ==
    {<<ESC, 91, 54, 110>>, <<ESC, 91, 63, 54, 110>>, <<ESC, 91, 99>>,
     <<ESC, 91, 62, 99>>, <<ESC, 91, 61, 99>>, <<ESC, 91, 48, 99>>}

\* Query q occurs in bytes at index i (1-based).
QueryAt(bytes, i, q) ==
    i + Len(q) - 1 <= Len(bytes) /\ SubSeq(bytes, i, i + Len(q) - 1) = q

ContainsQuery(bytes) ==
    \E i \in 1..Len(bytes) : \E q \in Queries : QueryAt(bytes, i, q)

\* C22: the output of strip_terminal_queries contains no DSR query and no DA
\* query, whatever the input.
C22_OutputHasNoQuery ==
    call.fn = "strip_terminal_queries" => ~ContainsQuery(call.output)

(***************************************************************************)
(* C23: what strip_terminal_queries keeps                                  *)
(***************************************************************************)
\* The occurrences of queries in bytes: <<first index, last index>>.
QueryOccurrences(bytes) ==
    {o \in {<<i, i + Len(q) - 1>> : i \in 1..Len(bytes), q \in Queries} :
        \E q \in Queries : Len(q) = o[2] - o[1] + 1 /\ QueryAt(bytes, o[1], q)}

Disjoint(occs) ==
    \A a \in occs : \A b \in occs : a = b \/ a[2] < b[1] \/ b[2] < a[1]

\* bytes from index i on, without the bytes inside the occurrences occs.
RECURSIVE WithoutFrom(_, _, _)
WithoutFrom(bytes, occs, i) ==
    IF i > Len(bytes) THEN << >>
    ELSE (IF \E o \in occs : o[1] <= i /\ i <= o[2] THEN << >> ELSE <<bytes[i]>>)
             \o WithoutFrom(bytes, occs, i + 1)

\* C23: strip_terminal_queries removes complete DSR/DA queries only: its
\* output is its input without some non-overlapping occurrences of queries,
\* every other byte kept in order; an input without ESC, and any input
\* without a complete query (non-query CSI sequences, a sequence cut off at
\* the end), is returned unchanged.
C23_RemovesOnlyCompleteQueries ==
    call.fn = "strip_terminal_queries" =>
        /\ \E occs \in SUBSET QueryOccurrences(call.input) :
               /\ Disjoint(occs)
               /\ call.output = WithoutFrom(call.input, occs, 1)
        /\ (\A i \in 1..Len(call.input) : call.input[i] # ESC) => call.output = call.input
        /\ QueryOccurrences(call.input) = {} => call.output = call.input

\* A DA query followed by a CSI sequence that ends in "n" and is no query:
\* the query is removed, the other sequence is kept.
C23_Witness ==
    /\ call.fn = "strip_terminal_queries"
    /\ call.input = <<ESC, 91, 99, ESC, 91, 110>>
    /\ call.output = <<ESC, 91, 110>>

(***************************************************************************)
(* extract_osc9_notifications on arbitrary byte strings                    *)
(***************************************************************************)
\* Inputs are made of these pieces: ESC ] 9 ; (start of an OSC 9 sequence),
\* BEL, ESC \ (the terminators), ESC alone, "a" and the byte 0xff.
Osc9Pieces ==
    {<<ESC, 93, 57, 59>>, <<BEL>>, <<ESC, 92>>, <<ESC>>, <<97>>, <<255>>}
\* Most pieces in one input.
MaxPieces == 6

RECURSIVE Concat(_)
Concat(seqs) == IF seqs = << >> THEN << >> ELSE Head(seqs) \o Concat(Tail(seqs))

\* An input is chosen; nothing is called yet.
InitOsc9 ==
    /\ InitMain
    /\ call \in {[NoCall EXCEPT !.input = Concat(ps)] : ps \in BytesUpTo(Osc9Pieces, MaxPieces)}

\* extract_osc9_notifications(data) is called on the chosen input.
Osc9Call ==
    /\ call.fn = "none"
    /\ call' = [call EXCEPT !.fn = "extract_osc9_notifications",
                            !.output = extract_osc9_notifications(call.input)]
    /\ UNCHANGED callOnly

NextOsc9 == Osc9Call

SpecOsc9 == InitOsc9 /\ [][NextOsc9]_vars

(***************************************************************************)
(* C24: OSC 9 notifications                                                *)
(***************************************************************************)
\* ESC ] 9 ; starts at index i (1-based).
Osc9StartAt(bytes, i) ==
    i + 3 <= Len(bytes) /\ SubSeq(bytes, i, i + 3) = <<ESC, 93, 57, 59>>

\* A terminator starts at index e: BEL, or ESC followed by a backslash.
TerminatorAt(bytes, e) ==
    \/ bytes[e] = BEL
    \/ bytes[e] = ESC /\ e + 1 <= Len(bytes) /\ bytes[e + 1] = 92

\* The terminated OSC 9 sequences of bytes: <<first index, last index, index
\* of the terminator>>, the terminator being the first one after the start.
Osc9Occurrences(bytes) ==
    LET Terminators(i) == {e \in (i + 4)..Len(bytes) : TerminatorAt(bytes, e)}
        First(i) == CHOOSE e \in Terminators(i) : \A f \in Terminators(i) : e <= f
    IN  {<<i, IF bytes[First(i)] = BEL THEN First(i) ELSE First(i) + 1, First(i)>> :
            i \in {k \in 1..Len(bytes) : Osc9StartAt(bytes, k) /\ Terminators(k) # {}}}

\* The messages of the occurrences occs that start at index i or later, in
\* order, each as the text between "ESC ] 9 ;" and the terminator.
RECURSIVE MessagesFrom(_, _, _)
MessagesFrom(bytes, occs, i) ==
    IF i > Len(bytes) THEN << >>
    ELSE (IF \E o \in occs : o[1] = i
          THEN LET o == CHOOSE p \in occs : p[1] = i
               IN  <<from_utf8_lossy(SubSeq(bytes, i + 4, o[3] - 1))>>
          ELSE << >>)
             \o MessagesFrom(bytes, occs, i + 1)

\* C24: extract_osc9_notifications removes the terminated OSC 9 sequences
\* of its input (every start of one is at or inside a removed sequence) and
\* nothing else, and returns their messages in order of occurrence; an
\* unterminated OSC 9 sequence stays in place and yields no notification; an
\* input without a terminated OSC 9 sequence is returned unchanged with an
\* empty list.
C24_Osc9Extraction ==
    call.fn = "extract_osc9_notifications" =>
        LET all == Osc9Occurrences(call.input)
        IN  /\ \E occs \in SUBSET all :
                   /\ Disjoint(occs)
                   /\ \A o \in all : \E p \in occs : p[1] <= o[1] /\ o[1] <= p[2]
                   /\ call.output.cleaned = WithoutFrom(call.input, occs, 1)
                   /\ call.output.notifications = MessagesFrom(call.input, occs, 1)
            /\ all = {} => /\ call.output.cleaned = call.input
                           /\ call.output.notifications = << >>

\* Two notifications, one ended by BEL and one by ESC \, and then an
\* unterminated one that stays.
C24_Witness ==
    /\ call.fn = "extract_osc9_notifications"
    /\ call.input = <<ESC, 93, 57, 59, 255, BEL, ESC, 93, 57, 59, ESC, 92,
                      ESC, 93, 57, 59>>
    /\ call.output.cleaned = <<ESC, 93, 57, 59>>
    /\ call.output.notifications = <<<<239, 191, 189>>, << >>>>

(***************************************************************************)
(* Framing: encode_frame and the frame parser of handle_client             *)
(***************************************************************************)
\* Payload bytes and the longest payload; most frames in one stream.
FrameBytes == {0, 1}
MaxPayload == 1
MaxFrames == 3

\* u32::to_be_bytes and u32::from_be_bytes.
u32_to_be_bytes(n) ==
    <<(n \div 16777216) % 256, (n \div 65536) % 256, (n \div 256) % 256, n % 256>>
u32_from_be_bytes(b) == b[1] * 16777216 + b[2] * 65536 + b[3] * 256 + b[4]

\* "payload.len() as u32": the length modulo 2^32.  Every length the model
\* checker can represent is below 2^31, where the cast changes nothing.
as_u32(n) == n

\* A length prefix written least significant byte first.
encode_frame_LittleEndian(payload) ==
    LET be == u32_to_be_bytes(as_u32(Len(payload)))
    IN  <<be[4], be[3], be[2], be[1]>> \o payload

\* encode_frame: "payload.len() as u32" in big-endian, then the payload.
encode_frame(payload) ==
    u32_to_be_bytes(as_u32(Len(payload))) \o payload

RECURSIVE EncodeAll(_)
EncodeAll(payloads) ==
    IF payloads = << >> THEN << >>
    ELSE encode_frame(Head(payloads)) \o EncodeAll(Tail(payloads))

\* The "while pending.len() >= 4" loop of the frame parser: the payloads of
\* the complete frames at the head of pending, and what is left of pending.
RECURSIVE ParseFrames(_)
ParseFrames(pending) ==
    IF Len(pending) < 4 THEN [payloads |-> << >>, pending |-> pending]
    ELSE LET msg_len == u32_from_be_bytes(SubSeq(pending, 1, 4))
         IN  IF Len(pending) < 4 + msg_len
             THEN [payloads |-> << >>, pending |-> pending]
             ELSE LET rest == ParseFrames(SubSeq(pending, 4 + msg_len + 1, Len(pending)))
                  IN  [payloads |-> <<SubSeq(pending, 5, 4 + msg_len)>> \o rest.payloads,
                       pending |-> rest.pending]

\* Payloads to send are chosen; nothing is encoded yet.
InitFrame ==
    /\ InitMain
    /\ call \in {[fn |-> "none", input |-> payloads,
                   output |-> [wire |-> << >>, pending |-> << >>, decoded |-> << >>]] :
                     payloads \in BytesUpTo(BytesUpTo(FrameBytes, MaxPayload), MaxFrames)}

\* The sender encodes its payloads with encode_frame and writes them to the
\* socket one after the other.
FrameEncode ==
    /\ call.fn = "none"
    /\ call' = [call EXCEPT !.fn = "encode_frame", !.output.wire = EncodeAll(call.input)]
    /\ UNCHANGED callOnly

\* reader.read returns the next n bytes; they are appended to pending and the
\* parser takes every complete frame.
FrameRead(n) ==
    /\ call.fn = "encode_frame"
    /\ n <= Len(call.output.wire)
    /\ LET wire == call.output.wire
           parsed == ParseFrames(call.output.pending \o SubSeq(wire, 1, n))
       IN  call' = [call EXCEPT !.output =
                       [wire |-> SubSeq(wire, n + 1, Len(wire)),
                        pending |-> parsed.pending,
                        decoded |-> call.output.decoded \o parsed.payloads]]
    /\ UNCHANGED callOnly

NextFrame ==
    \/ FrameEncode
    \/ \E n \in 1..(MaxFrames * (4 + MaxPayload)) : FrameRead(n)

SpecFrame == InitFrame /\ [][NextFrame]_vars

ReplayMargin == 2

\* Buffer contents handed to send_replay: byte strings over ESC, "[", "c"
\* and "a".
ReplayInputs == BytesUpTo({ESC, 91, 99, 97}, GZIP_THRESHOLD + ReplayMargin)

\* buf_data and the outcome of the encoder are chosen; nothing is called yet.
InitReplay ==
    /\ InitMain
    /\ call \in {[fn |-> "none", input |-> [buf_data |-> data, gz |-> gz], output |-> << >>] :
                     data \in ReplayInputs,
                     gz \in UNION {GzipResults(strip_terminal_queries(d)) : d \in ReplayInputs}}
    /\ call.input.gz \in GzipResults(strip_terminal_queries(call.input.buf_data))

\* send_replay up to the replay frame.
ReplayCall ==
    /\ call.fn = "none"
    /\ call' = [call EXCEPT !.fn = "send_replay",
                            !.output = ReplayFrames(call.input.buf_data, call.input.gz)]
    /\ UNCHANGED callOnly

NextReplay == ReplayCall

SpecReplay == InitReplay /\ [][NextReplay]_vars

\* The stripped replay bytes of the call, and the replay frames it sent.
ReplayCleaned == strip_terminal_queries(call.input.buf_data)
GzFrames == SelectSeq(call.output, LAMBDA f : f.type = WS_MSG_BUFFER_REPLAY_GZ)

\* C26: for stripped replay bytes that are not empty, a BUFFER_REPLAY_GZ
\* frame is sent iff they reach GZIP_THRESHOLD and the gzip output is
\* strictly smaller than they are; in every other case exactly one
\* BUFFER_REPLAY frame with the stripped bytes is sent; never two replay
\* frames.
C26_ExactlyOneReplayFrame ==
    (call.fn = "send_replay" /\ ReplayCleaned # << >>) =>
        LET smaller == /\ Len(ReplayCleaned) >= GZIP_THRESHOLD
                       /\ call.input.gz.ok
                       /\ call.input.gz.len < Len(ReplayCleaned)
        IN  /\ Len(call.output) <= 1
            /\ GzFrames # << >> <=> smaller
            /\ ~smaller => call.output = <<Frame(WS_MSG_BUFFER_REPLAY, ReplayCleaned, 0)>>

\* C27: when the gzip encoder fails, the uncompressed bytes are sent in a
\* BUFFER_REPLAY frame.
C27_EncoderErrorFallsBack ==
    (call.fn = "send_replay" /\ ~call.input.gz.ok)
        => call.output = <<Frame(WS_MSG_BUFFER_REPLAY, ReplayCleaned, 0)>>

(***************************************************************************)
(* Two connections: one client disconnects, the other goes on              *)
(***************************************************************************)
ClientPair == {1, 2}

\* The state after startup with two connections to come.
InitPair ==
    /\ output_buffer = OutputBuffer_new(BUFFER_SIZE)
    /\ session_active = TRUE
    /\ exit_code = << >>
    /\ title = << >>
    /\ meta = InitialMeta
    /\ meta_dirty = FALSE
    /\ disk = meta
    /\ lock_readers = {}
    /\ bcast = << >>
    /\ pty = [pc |-> "read", chunk |-> << >>, chunks_read |-> 0,
              wstatus |-> NoStatus, code |-> 0]
    /\ idle_pc = "run"
    /\ hs = [c \in ClientPair |->
               [pc |-> "none", kind |-> "none", offset |-> F64(0), first |-> NoMsg,
                snap_total |-> 0, buf_data |-> << >>, out_q |-> << >>]]
    /\ fwd = [c \in ClientPair |-> [pc |-> "none", next |-> 0, sub_at |-> 0]]
    /\ sock = [c \in ClientPair |->
                 [mutex |-> "free", sent |-> << >>, stalled |-> FALSE, unread |-> 0]]
    /\ input_q = << >>
    /\ pty_in = << >>
    /\ host_exited = FALSE
    /\ proc = [spawn |-> "ok", sig |-> "none", kill_sent |-> FALSE, socket |-> TRUE,
               exit_status |-> << >>, now |-> 1]
    /\ stream = << >>
    /\ rf = NoRead
    /\ call = NoCall
    /\ fs = InitialFile
    /\ InitTasks

\* A client that stays silent until the timer expires or it disconnects.
SilentNext(c) ==
    \/ Accept(c)
    \/ HsTimeout(c)
    \/ HsReplayLock(c)
    \/ HsSyncLock(c)
    \/ HsLockWriter(c)
    \/ HsWrite(c)
    \/ HsExitLock(c)
    \/ ClientDisconnect(c)

\* The PTY read task with one kind of chunk.
PairChunks == {<<97>>}

\* Client 1 is silent; client 2 connects and disconnects within the RESUME
\* window, its forwarder running from the accept on.
NextPair ==
    \/ \E chunk \in PairChunks : PtyRead(chunk)
    \/ PtyUpdate
    \/ PtyData
    \/ \E status \in ExitStatuses : PtyEof(status)
    \/ PtyExitBcast
    \/ PtyExitMeta
    \/ HostExit
    \/ SilentNext(1)
    \/ Accept(2)
    \/ ClientDisconnect(2)
    \/ \E c \in ClientPair : ForwarderNext(c)

SpecPair == InitPair /\ [][NextPair]_vars

\* C28: the step in which a client's reader ends on a disconnect (in
\* read_first_message or in steady state) leaves that client's forwarder
\* aborted or already ended and changes nothing else: not the shared state or
\* the ring buffer, not the broadcast channel, the PTY task or the input
\* queue, not any other client's handshake, forwarder or socket; and a closed
\* client takes no further step, so the frames of the others are those they
\* get from a silent client.
C28_DisconnectChangesNothingElse ==
    [][\A c \in DOMAIN hs :
         /\ (hs[c].pc # "closed" /\ hs'[c].pc = "closed") =>
              /\ hs[c].pc \in {"first", "stream"}
              /\ fwd'[c].pc \in {"aborted", "ended"}
              /\ sock'[c].sent = sock[c].sent
              /\ UNCHANGED <<sharedVars, lock_readers, bcast, pty, idle_pc,
                             inputVars, hostVars>>
              /\ \A d \in DOMAIN hs \ {c} :
                   hs'[d] = hs[d] /\ fwd'[d] = fwd[d] /\ sock'[d] = sock[d]
         /\ hs[c].pc = "closed" =>
              hs'[c] = hs[c] /\ fwd'[c] = fwd[c] /\ sock'[c] = sock[c]]_vars

\* Client 2 has disconnected during the handshake, before any frame was sent
\* to it, and client 1 is in steady state and has been forwarded a frame.
C28_Witness ==
    /\ DOMAIN hs = ClientPair
    /\ hs[2].pc = "closed" /\ fwd[2].pc = "aborted" /\ sock[2].sent = << >>
    /\ hs[1].pc = "stream" /\ BcFrames(1) # << >>

(***************************************************************************)
(* handle_client as a decoder: read_first_message under the RESUME timer,  *)
(* then the steady-state read loop                                         *)
(***************************************************************************)
\* The payloads a client sends: an empty one, a RESUME (type byte and one
\* byte standing for the offset, which the decoder does not look at) and a
\* DATA frame.
WirePayloads == {<< >>, <<WS_MSG_RESUME, 1>>, <<WS_MSG_DATA, 97>>}
\* Frames a client sends on one connection.
MaxWire == 3

\* handle_client's locals before the first read, with the history the
\* properties need: bytes read so far, frames taken out of pending, what the
\* handshake was decided on, the bytes read when the timer expired, the
\* payloads passed to process_client_message in steady state, and whether the
\* last step was a pass of the steady-state parser.
NoDecode ==
    [pending |-> << >>, nread |-> 0, cons |-> 0, handshake |-> None, at_timeout |-> 0,
     handled |-> << >>, fresh |-> FALSE]

\* A connection is accepted; the client's frames are still to arrive.
InitWire ==
    /\ InitMain
    /\ call \in {[fn |-> "first",
                   input |-> [payloads |-> ps, wire |-> EncodeAll(ps)],
                   output |-> NoDecode] : ps \in SeqsUpTo(WirePayloads, MaxWire)}

\* read_first_message: "pending.len() >= 4 + msg_len && msg_len > 0".
FirstReady(pending) ==
    /\ Len(pending) >= 4
    /\ Len(pending) >= 4 + u32_from_be_bytes(SubSeq(pending, 1, 4))
    /\ u32_from_be_bytes(SubSeq(pending, 1, 4)) > 0

\* read_first_message returns the frame at the head of pending; handle_client
\* takes the RESUME path, or the full replay followed by
\* process_client_message for that frame.
WireFirstFrame ==
    /\ call.fn = "first"
    /\ FirstReady(call.output.pending)
    /\ LET pending == call.output.pending
           msg_len == u32_from_be_bytes(SubSeq(pending, 1, 4))
           payload == SubSeq(pending, 5, 4 + msg_len)
       IN  call' = [call EXCEPT
               !.fn = "steady",
               !.output.pending = SubSeq(pending, 4 + msg_len + 1, Len(pending)),
               !.output.cons = @ + 1,
               !.output.handshake =
                   Some([kind |-> IF payload[1] = WS_MSG_RESUME THEN "resume" ELSE "full",
                         payload |-> payload])]
    /\ UNCHANGED callOnly

\* read_first_message: no frame to return, reader.read gives the next n bytes.
WireFirstRead(n) ==
    /\ call.fn = "first"
    /\ ~FirstReady(call.output.pending)
    /\ n <= Len(call.input.wire)
    /\ call' = [call EXCEPT
           !.input.wire = SubSeq(@, n + 1, Len(@)),
           !.output.pending = @ \o SubSeq(call.input.wire, 1, n),
           !.output.nread = @ + n]
    /\ UNCHANGED callOnly

\* read_first_message: the client has sent everything and closes; read returns
\* 0, read_first_message returns None and handle_client returns.
WireFirstEof ==
    /\ call.fn = "first"
    /\ ~FirstReady(call.output.pending)
    /\ call.input.wire = << >>
    /\ call' = [call EXCEPT !.fn = "closed"]
    /\ UNCHANGED callOnly

\* RESUME_TIMEOUT_MS pass while read_first_message waits in reader.read:
\* full replay, then the steady-state loop with pending as it is.
WireTimeout ==
    /\ call.fn = "first"
    /\ ~FirstReady(call.output.pending)
    /\ call' = [call EXCEPT
           !.fn = "steady",
           !.output.handshake = Some([kind |-> "timeout", payload |-> << >>]),
           !.output.at_timeout = call.output.nread]
    /\ UNCHANGED callOnly

\* Steady state: reader.read gives the next n bytes, the parser takes every
\* complete frame and passes the payloads that are not empty to
\* process_client_message.
WireSteadyRead(n) ==
    /\ call.fn = "steady"
    /\ n <= Len(call.input.wire)
    /\ LET parsed == ParseFrames(call.output.pending \o SubSeq(call.input.wire, 1, n))
       IN  call' = [call EXCEPT
               !.input.wire = SubSeq(@, n + 1, Len(@)),
               !.output.pending = parsed.pending,
               !.output.nread = @ + n,
               !.output.cons = @ + Len(parsed.payloads),
               !.output.handled =
                   @ \o SelectSeq(parsed.payloads, LAMBDA payload : payload # << >>),
               !.output.fresh = TRUE]
    /\ UNCHANGED callOnly

\* Steady state: read returns 0, the loop ends.
WireSteadyEof ==
    /\ call.fn = "steady"
    /\ call.input.wire = << >>
    /\ call' = [call EXCEPT !.fn = "closed", !.output.fresh = FALSE]
    /\ UNCHANGED callOnly

NextWire ==
    \/ WireFirstFrame
    \/ \E n \in 1..(MaxWire * 6) : WireFirstRead(n)
    \/ WireFirstEof
    \/ WireTimeout
    \/ \E n \in 1..(MaxWire * 6) : WireSteadyRead(n)
    \/ WireSteadyEof

SpecWire == InitWire /\ [][NextWire]_vars

\* The frames that lie completely within the first k bytes the client sent,
\* and of these the payloads that are not empty.
CompleteWithin(k) ==
    CHOOSE j \in 0..Len(call.input.payloads) :
        /\ Len(EncodeAll(SubSeq(call.input.payloads, 1, j))) <= k
        /\ \A i \in (j + 1)..Len(call.input.payloads) :
             Len(EncodeAll(SubSeq(call.input.payloads, 1, i))) > k
ArrivedWithin(k) ==
    SelectSeq(SubSeq(call.input.payloads, 1, CompleteWithin(k)),
              LAMBDA payload : payload # << >>)

\* Every payload the decoder has acted on: the frame of the handshake, then
\* those of the steady state.
Decoded ==
    (IF call.output.handshake.some /\ call.output.handshake.v.kind # "timeout"
     THEN <<call.output.handshake.v.payload>> ELSE << >>)
        \o call.output.handled

\* Steady state: after a pass of the parser every complete frame read so far
\* has been taken and the payloads acted on are the non-empty ones, in order.
SteadySkipsEmpty ==
    call.output.fresh =>
        /\ call.output.cons = CompleteWithin(call.output.nread)
        /\ Decoded = ArrivedWithin(call.output.nread)

\* First frame: the handshake is decided by the first non-empty frame that
\* arrives within the window; it is the timer's full replay, or no handshake
\* at all on a disconnect, only when no such frame had arrived.
FirstSkipsEmpty ==
    /\ (call.output.handshake.some /\ call.output.handshake.v.kind = "timeout") =>
           ArrivedWithin(call.output.at_timeout) = << >>
    /\ (call.output.handshake.some /\ call.output.handshake.v.kind # "timeout") =>
           call.output.handshake.v.payload =
               Head(SelectSeq(call.input.payloads, LAMBDA payload : payload # << >>))
    /\ (call.fn = "closed" /\ ~call.output.handshake.some) =>
           ArrivedWithin(call.output.nread) = << >>

\* C29: a frame with an empty payload is ignored and the frames after it are
\* decoded as if it were absent, in steady state and as the first frame of a
\* connection: an empty frame followed by RESUME within the window gives the
\* RESUME handshake.
C29_EmptyFrameIgnored ==
    SteadySkipsEmpty /\ FirstSkipsEmpty

(***************************************************************************)
(* RESUME in steady state                                                  *)
(***************************************************************************)
\* A steady-state reader that answers RESUME as the handshake does.
ClientResume_Replays(c, offset) ==
    /\ ~host_exited
    /\ hs[c].pc = "stream"
    /\ ResumeSnapshot(c, offset)
    /\ call' = [fn |-> "process_client_message",
                input |-> Frame(WS_MSG_RESUME, offset, 0), output |-> << >>]
    /\ UNCHANGED <<sharedVars, lock_readers, bcast, pty, idle_pc, fwd, sock, inputVars,
                   hostVars, rf, fs, resize_q, taskVars>>

\* Steady state: the client sends RESUME and the reader passes it to
\* process_client_message, whose "_ => {}" arm takes it.  call records it.
ClientResume(c, offset) ==
    /\ ~host_exited
    /\ hs[c].pc = "stream"
    /\ process_client_message(c, Frame(WS_MSG_RESUME, offset, 0))
    /\ call' = [fn |-> "process_client_message",
                input |-> Frame(WS_MSG_RESUME, offset, 0), output |-> << >>]
    /\ UNCHANGED <<sharedVars, lock_readers, bcast, pty, idle_pc, clientVars, pty_in,
                   hostVars, rf, fs, taskVars>>

\* Spec with clients that send RESUME in steady state.
NextResume ==
    \/ Next
    \/ \E c \in Clients : \E offset \in ResumeOffsets : ClientResume(c, offset)

SpecResume == Init /\ [][NextResume]_vars

\* The frames of one type among those the handshake of c wrote.
HsCount(c, type) == Len(SelectSeq(HsFrames(c), LAMBDA e : e.f.type = type))

\* The handshake of c has written its SYNC block.
HandshakeDone(c) ==
    \/ hs[c].pc \in {"dispatch", "exit", "exit_m", "exit_w", "stream"}
    \/ hs[c].pc = "closed" /\ HsFrames(c) # << >>

\* C30: a handshake never writes a second SYNC or a second SESSION_STATE, and
\* once it is through (by RESUME, by a non-RESUME first frame or by the timer)
\* it has written exactly one of each; after a RESUME in steady state the
\* reader is still in steady state with that one SYNC and at most one replay
\* frame sent.
C30_OneSyncOneSessionState ==
    \A c \in Clients :
        /\ HsCount(c, WS_MSG_SYNC) <= 1
        /\ HsCount(c, WS_MSG_SESSION_STATE) <= 1
        /\ HsCount(c, WS_MSG_BUFFER_REPLAY) + HsCount(c, WS_MSG_BUFFER_REPLAY_GZ) <= 1
        /\ HandshakeDone(c) =>
               HsCount(c, WS_MSG_SYNC) = 1 /\ HsCount(c, WS_MSG_SESSION_STATE) = 1
        /\ call.fn = "process_client_message" =>
               hs[c].pc \in {"stream", "closed"} /\ HandshakeDone(c)

\* A connection whose handshake took the delta path of RESUME, with its one
\* SYNC and one SESSION_STATE, has been sent RESUME again in steady state.
C30_Witness ==
    /\ call.fn = "process_client_message"
    /\ hs[1].pc = "stream" /\ hs[1].kind = "delta"
    /\ HsCount(1, WS_MSG_SYNC) = 1 /\ HsCount(1, WS_MSG_SESSION_STATE) = 1
    /\ HsCount(1, WS_MSG_BUFFER_REPLAY) = 1

(***************************************************************************)
(* Resize task; a first frame that is not RESUME                           *)
(***************************************************************************)
\* resize_rx.recv() and resize_pty: TIOCSWINSZ with the pair received.
ResizeRecv ==
    /\ ~host_exited
    /\ resize_task.pc = "recv"
    /\ resize_q # << >>
    /\ resize_task' = [resize_task EXCEPT !.pc = "lock",
                           !.new_cols = Head(resize_q)[1], !.new_rows = Head(resize_q)[2],
                           !.ws_col = Head(resize_q)[1], !.ws_row = Head(resize_q)[2]]
    /\ resize_q' = Tail(resize_q)
    /\ UNCHANGED <<sharedVars, lock_readers, bcast, pty, idle_pc, clientVars, inputVars,
                   hostVars, rf, call, fs, flush, metrics>>

\* A resize task that marks the metadata dirty.
ResizeMeta_MarkDirty ==
    /\ ~host_exited
    /\ resize_task.pc = "lock"
    /\ lock_readers = {}
    /\ meta' = [meta EXCEPT !.cols = resize_task.new_cols, !.rows = resize_task.new_rows]
    /\ meta_dirty' = TRUE
    /\ resize_task' = [resize_task EXCEPT !.pc = "recv", !.done = @ + 1]
    /\ UNCHANGED <<output_buffer, session_active, exit_code, title, disk,
                   stream, lock_readers, bcast, pty, idle_pc, clientVars, inputVars,
                   hostVars, rf, call, fs, resize_q, flush, metrics>>

\* state_resize.write().await, then meta.cols and meta.rows.
ResizeMeta ==
    /\ ~host_exited
    /\ resize_task.pc = "lock"
    /\ lock_readers = {}
    /\ meta' = [meta EXCEPT !.cols = resize_task.new_cols, !.rows = resize_task.new_rows]
    /\ resize_task' = [resize_task EXCEPT !.pc = "recv", !.done = @ + 1]
    /\ UNCHANGED <<output_buffer, session_active, exit_code, title, meta_dirty, disk,
                   stream, lock_readers, bcast, pty, idle_pc, clientVars, inputVars,
                   hostVars, rf, call, fs, resize_q, flush, metrics>>

\* The first frames that are not RESUME: DATA, RESIZE(120, 40), and a RESIZE
\* whose body has 3 bytes.
FirstFrames(c) ==
    {DataFrame(ClientData(c)), Frame(WS_MSG_RESIZE, <<0, 120, 0, 40>>, 0),
     Frame(WS_MSG_RESIZE, <<0, 120, 0>>, 0)}

\* A handshake that dispatches the first frame before the replay.
HsFirst_DispatchFirst(c, msg) ==
    /\ ~host_exited
    /\ hs[c].pc = "first"
    /\ FullReplaySnapshot(c, NoMsg)
    /\ process_client_message(c, msg)
    /\ UNCHANGED <<sharedVars, lock_readers, bcast, pty, idle_pc, fwd, sock, pty_in,
                   hostVars, rf, call, fs, taskVars>>

\* read_first_message returns msg, which is not RESUME: full replay first,
\* msg is kept to be processed after it.
HsFirst(c, msg) ==
    /\ ~host_exited
    /\ hs[c].pc = "first"
    /\ FullReplaySnapshot(c, msg)
    /\ UNCHANGED hsFrame

\* The PTY read task and the input and resize tasks, with clients whose
\* first frame is not RESUME.
NextFirst ==
    \/ PtyNext
    \/ PtyWrite
    \/ ResizeRecv
    \/ ResizeMeta
    \/ \E c \in Clients :
         \/ Accept(c)
         \/ \E msg \in FirstFrames(c) : HsFirst(c, msg)
         \/ HsReplayLock(c)
         \/ HsSyncLock(c)
         \/ HsLockWriter(c)
         \/ HsWrite(c)
         \/ HsDispatch(c)
         \/ HsExitLock(c)
         \/ ClientDisconnect(c)

SpecFirst == Init /\ [][NextFirst]_vars

C32_NoCompleteFrameWaits ==
    call.fn = "steady" => Decoded = ArrivedWithin(call.output.nread)

(***************************************************************************)
(* PTY read task and idle timer, with chunks that carry OSC 9 sequences    *)
(***************************************************************************)
\* One OSC 9 sequence and nothing else; a title followed by two OSC 9
\* sequences.
Osc9Chunk == <<ESC, 93, 57, 59, 110, BEL>>
TitleOsc9Chunk ==
    TitleChunk \o <<ESC, 93, 57, 59, 110, BEL, ESC, 93, 57, 59, 111, BEL>>
OtherTitleChunk == <<ESC, 93, 48, 59, 117, BEL>>
ChunkKinds == {<<97>>, TitleChunk, OtherTitleChunk, Osc9Chunk, TitleOsc9Chunk}

NextChunk ==
    \/ \E chunk \in ChunkKinds : PtyRead(chunk)
    \/ PtyTitle
    \/ PtyTitleBcast
    \/ PtyUpdate
    \/ PtyData
    \/ \E status \in ExitStatuses : PtyEof(status)
    \/ PtyExitBcast
    \/ PtyExitMeta
    \/ HostExit
    \/ \E idle_ms \in IdleTimes : IdleTick(idle_ms)

SpecChunk == Init /\ [][NextChunk]_vars

\* The frames the PTY read task publishes for chunks: all of the broadcast
\* channel but the idle timer's SESSION_STATE(0x00) and EXIT.
ChunkFrames ==
    SelectSeq(bcast, LAMBDA f :
        \/ f.type \in {WS_MSG_TITLE, WS_MSG_NOTIFICATION, WS_MSG_DATA}
        \/ f = SessionStateFrame(TRUE))

\* The bodies of the DATA frames of fs, concatenated.
RECURSIVE DataBytes(_)
DataBytes(fs_) ==
    IF fs_ = << >> THEN << >>
    ELSE (IF Head(fs_).type = WS_MSG_DATA THEN Head(fs_).body ELSE << >>)
             \o DataBytes(Tail(fs_))

\* The frames of one chunk when the title before it is tb and the session is
\* idle or not: TITLE if the chunk's title differs from tb, one NOTIFICATION
\* per OSC 9 message, SESSION_STATE(0x01) if idle, DATA.  With always_data
\* the last two come for every chunk, without it only for a chunk whose
\* cleaned bytes are not empty.
ChunkExpected(chunk, tb, idle, always_data) ==
    LET t == parse_osc_title(chunk)
        ex == extract_osc9_notifications(chunk)
    IN  (IF t # << >> /\ t # tb THEN <<TitleFrame(t[1])>> ELSE << >>)
            \o NotificationFrames(ex.notifications)
            \o (IF always_data \/ ex.cleaned # << >>
                THEN (IF idle THEN <<SessionStateFrame(TRUE)>> ELSE << >>)
                         \o <<DataFrame(ex.cleaned)>>
                ELSE << >>)

\* The PTY read task is between the read of a chunk and its last frame.
InChunk == pty.pc \in {"title", "title_bcast", "update", "data"}

\* frames is the expected frames of n chunks, the first read with title tb;
\* while the read task is within a chunk, the last of the n is that chunk
\* and only the first of its frames need be there.
RECURSIVE ChunksMatch(_, _, _, _)
ChunksMatch(frames, n, tb, always_data) ==
    IF n = 0 THEN frames = << >>
    ELSE \E chunk \in ChunkKinds : \E idle \in BOOLEAN :
           LET e == ChunkExpected(chunk, tb, idle, always_data)
               t == parse_osc_title(chunk)
           IN  IF n = 1 /\ InChunk
               THEN chunk = pty.chunk /\ IsPrefix(frames, e)
               ELSE /\ IsPrefix(e, frames)
                    /\ ChunksMatch(SubSeq(frames, Len(e) + 1, Len(frames)), n - 1,
                                   IF t # << >> THEN t ELSE tb, always_data)

\* What the read task has published is the expected frames of the chunks
\* read so far, up to the chunk in hand; the bytes of the DATA frames
\* published are bytes already written to the ring buffer.
ChunkOrder(always_data) ==
    /\ ChunksMatch(ChunkFrames, pty.chunks_read, << >>, always_data)
    /\ IsPrefix(DataBytes(bcast), stream)
    /\ ~InChunk => DataBytes(bcast) = stream

\* SESSION_STATE(0x01) is published exactly in the step that writes the
\* cleaned bytes of a chunk to the ring buffer while the session is idle.
IdleToActive ==
    (Len(stream') > Len(stream) \/ bcast' = Append(bcast, SessionStateFrame(TRUE))) =>
        /\ stream' = stream \o Cleaned(pty.chunk)
        /\ session_active'
        /\ bcast' = IF session_active THEN bcast
                    ELSE Append(bcast, SessionStateFrame(TRUE))

\* C33 as stated: for every chunk the frames are TITLE (if the title
\* changed), the NOTIFICATIONs in order, SESSION_STATE(0x01) (if the session
\* was idle), then one DATA frame with the cleaned bytes, which are in the
\* ring buffer before the DATA frame is published.
C33_ChunkFramesAsStated ==
    []ChunkOrder(TRUE) /\ [][IdleToActive]_vars

\* C33 (amended): as stated for a chunk whose cleaned bytes are not empty;
\* for a chunk whose cleaned bytes are empty (it held OSC 9 sequences only)
\* TITLE and NOTIFICATION frames are published as stated, and neither
\* SESSION_STATE nor DATA, and the ring buffer is not written.
C33_ChunkFrameOrder ==
    []ChunkOrder(FALSE) /\ [][IdleToActive]_vars

\* Two chunks are done: an OSC 9 sequence alone, then, with the session idle,
\* a title with two OSC 9 sequences.
C33_Witness ==
    /\ pty.pc = "read" /\ pty.chunks_read = 2
    /\ ChunkFrames = <<NotificationFrame(<<110>>), TitleFrame(<<116>>),
                       NotificationFrame(<<110>>), NotificationFrame(<<111>>),
                       SessionStateFrame(TRUE), DataFrame(TitleChunk)>>

\* The titles of the TITLE frames of the broadcast channel, in order.
TitlesBroadcast ==
    LET ts == SelectSeq(bcast, LAMBDA f : f.type = WS_MSG_TITLE)
    IN  [k \in 1..Len(ts) |-> ts[k].body]

\* A step of the title block and of the TITLE broadcast.
TitleStep ==
    /\ title' # title =>
         /\ pty.pc = "title" /\ title' = parse_osc_title(pty.chunk)
         /\ meta'.title = title' /\ disk' = meta' /\ ~meta_dirty'
         /\ TitlesBroadcast' = TitlesBroadcast
    /\ TitlesBroadcast' # TitlesBroadcast =>
         /\ TitlesBroadcast' = Append(TitlesBroadcast, title[1])
         /\ meta.title = title /\ disk.title = title
         /\ UNCHANGED <<title, meta, disk>>
    /\ (pty.pc = "title" /\ pty'.pc # "title" /\ parse_osc_title(pty.chunk) = title) =>
         /\ UNCHANGED <<title, meta, disk, meta_dirty>>
         /\ TitlesBroadcast' = TitlesBroadcast

\* C34: a chunk with a new title sets the title and meta.title and writes
\* the metadata to disk in one step under the lock, before the TITLE frame is
\* broadcast; a chunk whose title equals the current one writes nothing and
\* broadcasts no TITLE; two consecutive TITLE frames never carry the same
\* title.
C34_TitleWrittenThenBroadcast ==
    /\ [][TitleStep]_vars
    /\ [](\A k \in 1..(Len(TitlesBroadcast) - 1) :
             TitlesBroadcast[k] # TitlesBroadcast[k + 1])

\* Both cases have happened: a title was broadcast, and a second chunk with
\* the same title was processed without another TITLE frame.
C34_Witness ==
    /\ pty.pc = "read" /\ pty.chunks_read = 2
    /\ ChunkFrames = <<TitleFrame(<<116>>), DataFrame(TitleChunk), DataFrame(TitleChunk)>>
    /\ disk.title = <<(<<116>>)>>

(***************************************************************************)
(* Periodic JSON flush                                                     *)
(***************************************************************************)
\* ThroughputTracker: compute_bps divides the bytes recorded within the
\* window by the window's seconds.  The rates bps1, bps5 and bps15 are kept
\* as the byte sums of the 60 s, 300 s and 900 s windows they are quotients
\* of; the sums depend on the clock and on chunk sizes, so a tick draws
\* them.  A shorter window never holds more than a longer one, and all are
\* zero while nothing was recorded.
WindowSums ==
    {<<0, 0, 0>>, <<29, 149, 449>>, <<30, 30, 30>>, <<0, 0, 450>>,
     <<60, 30001, 30001>>, <<0, 30001, 30001>>}
ThroughputNow == IF stream = << >> THEN {<<0, 0, 0>>} ELSE WindowSums

\* A flush task that never leaves its loop.
FlushTick_NoBreak(w) ==
    /\ ~host_exited
    /\ flush.pc = "run"
    /\ flush.ticks < MaxTicks
    /\ lock_readers = {}
    /\ IF meta_dirty
       THEN /\ meta' = [meta EXCEPT !.bps = w]
            /\ disk' = meta'
            /\ meta_dirty' = FALSE
       ELSE UNCHANGED <<meta, disk, meta_dirty>>
    /\ flush' = [flush EXCEPT !.ticks = @ + 1,
                              !.writes = IF meta_dirty THEN @ + 1 ELSE @]
    /\ UNCHANGED <<output_buffer, session_active, exit_code, title, stream,
                   lock_readers, bcast, pty, idle_pc, clientVars, inputVars,
                   hostVars, rf, call, fs, resize_q, resize_task, metrics>>

\* One tick of the flush task: the write lock, the rates and the write if
\* meta_dirty, the end of the loop if exit_code is set.
FlushTick(w) ==
    /\ ~host_exited
    /\ flush.pc = "run"
    /\ flush.ticks < MaxTicks
    /\ lock_readers = {}
    /\ IF meta_dirty
       THEN /\ meta' = [meta EXCEPT !.bps = w]
            /\ disk' = meta'
            /\ meta_dirty' = FALSE
       ELSE UNCHANGED <<meta, disk, meta_dirty>>
    /\ flush' = [flush EXCEPT !.ticks = @ + 1,
                              !.writes = IF meta_dirty THEN @ + 1 ELSE @,
                              !.pc = IF exit_code # << >> THEN "stopped" ELSE "run"]
    /\ UNCHANGED <<output_buffer, session_active, exit_code, title, stream,
                   lock_readers, bcast, pty, idle_pc, clientVars, inputVars,
                   hostVars, rf, call, fs, resize_q, resize_task, metrics>>

NextFlush ==
    \/ \E chunk \in PtyChunks : PtyRead(chunk)
    \/ PtyTitle
    \/ PtyTitleBcast
    \/ PtyUpdate
    \/ PtyData
    \/ \E status \in ExitStatuses : PtyEof(status)
    \/ PtyExitBcast
    \/ PtyExitMeta
    \/ HostExit
    \/ \E idle_ms \in IdleTimes : IdleTick(idle_ms)
    \/ \E w \in ThroughputNow : FlushTick(w)

SpecFlush == Init /\ [][NextFlush]_vars

\* A step of the flush task, and what every other step leaves alone.
FlushStep ==
    /\ flush'.ticks # flush.ticks =>
         /\ flush.pc = "run"
         /\ ~meta_dirty'
         /\ meta_dirty => disk' = meta' /\ flush'.writes = flush.writes + 1
         /\ ~meta_dirty => UNCHANGED <<disk, meta>> /\ flush'.writes = flush.writes
         /\ flush'.pc = "stopped" <=> exit_code # << >>
    /\ flush'.ticks = flush.ticks => flush' = flush
    /\ flush.pc = "stopped" => flush' = flush

\* C35: a tick of the flusher writes the metadata exactly if meta_dirty is
\* set and leaves meta_dirty false; the tick that finds exit_code set is the
\* flusher's last, so it writes nothing after it.
C35_FlushOnlyWhenDirty == [][FlushStep]_vars

\* The flusher has written once, has found nothing to write once, and has
\* stopped on exit_code.
C35_Witness ==
    /\ flush.pc = "stopped" /\ flush.ticks = 3 /\ flush.writes = 1
    /\ disk.status = "exited"

(***************************************************************************)
(* Metrics broadcast task                                                  *)
(***************************************************************************)
WS_MSG_SESSION_METRICS == 20

\* [type][bps1][bps5][bps15][totalBytes], the rates as their window sums.
MetricsFrame(w, total) == Frame(WS_MSG_SESSION_METRICS, <<w[1], w[2], w[3], total>>, 0)

\* "Session idle"
SessionIdleText == <<83, 101, 115, 115, 105, 111, 110, 32, 105, 100, 108, 101>>

\* bps1 >= 0.5 || bps5 >= 0.5 || bps15 >= 0.5, over the window sums.
AnyNonzero(w) == w[1] >= 30 \/ w[2] >= 150 \/ w[3] >= 450

\* A metrics task that broadcasts on every tick.
MetricsTick_Always(w) ==
    /\ ~host_exited
    /\ metrics.pc = "run"
    /\ metrics.ticks < MaxTicks
    /\ lock_readers = {}
    /\ IF exit_code # << >>
       THEN /\ metrics' = [metrics EXCEPT !.pc = "stopped", !.ticks = @ + 1]
            /\ UNCHANGED <<meta, bcast>>
       ELSE LET bps5_above_threshold == w[2] > 30000
                idle == /\ metrics.prev_bps5_above_threshold
                        /\ w[1] < 60 /\ ~bps5_above_threshold
            IN  /\ meta' = [meta EXCEPT !.bps = w]
                /\ bcast' = bcast
                      \o <<MetricsFrame(w, meta.total_bytes_written)>>
                      \o (IF idle THEN <<NotificationFrame(SessionIdleText)>> ELSE << >>)
                /\ metrics' = [metrics EXCEPT
                      !.ticks = @ + 1,
                      !.last_metrics_nonzero = AnyNonzero(w),
                      !.prev_bps5_above_threshold = bps5_above_threshold]
    /\ UNCHANGED <<output_buffer, session_active, exit_code, title, meta_dirty, disk,
                   stream, lock_readers, pty, idle_pc, clientVars, inputVars,
                   hostVars, rf, call, fs, resize_q, resize_task, flush>>

\* One tick of the metrics task under the write lock: the end of the loop if
\* exit_code is set, else the rates, SESSION_METRICS on activity or decay,
\* and the idle notification.
MetricsTick(w) ==
    /\ ~host_exited
    /\ metrics.pc = "run"
    /\ metrics.ticks < MaxTicks
    /\ lock_readers = {}
    /\ IF exit_code # << >>
       THEN /\ metrics' = [metrics EXCEPT !.pc = "stopped", !.ticks = @ + 1]
            /\ UNCHANGED <<meta, bcast>>
       ELSE LET any_nonzero == AnyNonzero(w)
                send == any_nonzero \/ metrics.last_metrics_nonzero
                bps5_above_threshold == w[2] > 30000
                idle == /\ metrics.prev_bps5_above_threshold
                        /\ w[1] < 60 /\ ~bps5_above_threshold
            IN  /\ meta' = [meta EXCEPT !.bps = w]
                /\ bcast' = bcast
                      \o (IF send THEN <<MetricsFrame(w, meta.total_bytes_written)>>
                          ELSE << >>)
                      \o (IF idle THEN <<NotificationFrame(SessionIdleText)>> ELSE << >>)
                /\ metrics' = [metrics EXCEPT
                      !.ticks = @ + 1,
                      !.last_metrics_nonzero = IF send THEN any_nonzero ELSE @,
                      !.prev_bps5_above_threshold = bps5_above_threshold]
    /\ UNCHANGED <<output_buffer, session_active, exit_code, title, meta_dirty, disk,
                   stream, lock_readers, pty, idle_pc, clientVars, inputVars,
                   hostVars, rf, call, fs, resize_q, resize_task, flush>>

NextMetrics ==
    \/ \E chunk \in PairChunks : PtyRead(chunk)
    \/ PtyUpdate
    \/ PtyData
    \/ \E status \in ExitStatuses : PtyEof(status)
    \/ PtyExitBcast
    \/ PtyExitMeta
    \/ HostExit
    \/ \E w \in ThroughputNow : MetricsTick(w)

SpecMetrics == Init /\ [][NextMetrics]_vars

\* The window sums of the SESSION_METRICS frames broadcast, in order.
MetricsBroadcast ==
    LET ms == SelectSeq(bcast, LAMBDA f : f.type = WS_MSG_SESSION_METRICS)
    IN  [k \in 1..Len(ms) |-> <<ms[k].body[1], ms[k].body[2], ms[k].body[3]>>]

\* The last SESSION_METRICS frame broadcast had a rate of 0.5 or more.
PreviousBroadcastNonzero ==
    /\ MetricsBroadcast # << >>
    /\ AnyNonzero(MetricsBroadcast[Len(MetricsBroadcast)])

\* A tick with exit_code clear computes the rates meta'.bps and broadcasts
\* them exactly if one is 0.5 or more or the previous frame broadcast had
\* such a rate; no other step, and no tick with exit_code set, broadcasts a
\* SESSION_METRICS frame.
MetricsStep ==
    /\ (metrics'.ticks # metrics.ticks /\ exit_code = << >>) =>
         IF AnyNonzero(meta'.bps) \/ PreviousBroadcastNonzero
         THEN MetricsBroadcast' = Append(MetricsBroadcast, meta'.bps)
         ELSE MetricsBroadcast' = MetricsBroadcast
    /\ (metrics'.ticks = metrics.ticks \/ exit_code # << >>) =>
         MetricsBroadcast' = MetricsBroadcast

\* C36: a metrics tick broadcasts SESSION_METRICS exactly if a rate is at
\* least 0.5 or the previous broadcast frame had such a rate; so a frame with
\* all rates below 0.5 is never followed directly by another one; once
\* exit_code is set no SESSION_METRICS frame is broadcast.
C36_MetricsOnActivityOrDecay ==
    /\ [][MetricsStep]_vars
    /\ [](\A k \in 1..(Len(MetricsBroadcast) - 1) :
             AnyNonzero(MetricsBroadcast[k]) \/ AnyNonzero(MetricsBroadcast[k + 1]))

\* Activity, decay, silence: three ticks, the first with a rate of 0.5, the
\* second and third with all rates below, and two frames.
C36_Witness ==
    /\ metrics.ticks = 3 /\ metrics.pc = "run"
    /\ meta.bps = <<29, 149, 449>>
    /\ MetricsBroadcast = <<(<<30, 30, 30>>), (<<0, 0, 0>>)>>

(***************************************************************************)
(* RESIZE and the metadata on disk                                         *)
(***************************************************************************)
NextResize ==
    \/ NextFirst
    \/ \E w \in ThroughputNow : FlushTick(w)

SpecResize == Init /\ [][NextResize]_vars

\* Everything under the state lock but meta, and the disk.
AllButMeta ==
    <<output_buffer, session_active, exit_code, title, meta_dirty, disk, stream, bcast>>

\* The steps of a RESIZE: its dispatch, the resize task's ioctl, the resize
\* task's metadata update; and the steps that change cols or rows on disk.
ResizeStep ==
    /\ \A c \in Clients :
         (hs[c].pc = "dispatch" /\ hs'[c].pc # "dispatch"
              /\ hs[c].first.type = WS_MSG_RESIZE) =>
             /\ UNCHANGED <<AllButMeta, meta, resize_task, input_q>>
             /\ resize_q' = IF Len(hs[c].first.body) < 4 THEN resize_q
                            ELSE Append(resize_q,
                                     <<hs[c].first.body[1] * 256 + hs[c].first.body[2],
                                       hs[c].first.body[3] * 256 + hs[c].first.body[4]>>)
    /\ (resize_task.pc = "recv" /\ resize_task'.pc = "lock") =>
         /\ <<resize_task'.ws_col, resize_task'.ws_row>> = Head(resize_q)
         /\ UNCHANGED <<AllButMeta, meta>>
    /\ (resize_task.pc = "lock" /\ resize_task'.pc = "recv") =>
         /\ meta' = [meta EXCEPT !.cols = resize_task.ws_col, !.rows = resize_task.ws_row]
         /\ UNCHANGED <<AllButMeta, resize_task.ws_col, resize_task.ws_row>>
    /\ resize_task' = resize_task =>
         /\ meta'.cols = meta.cols /\ meta'.rows = meta.rows
    /\ (disk'.cols # disk.cols \/ disk'.rows # disk.rows) =>
         /\ resize_task' = resize_task
         /\ disk' = meta'

\* C37: a RESIZE(cols, rows) sets the PTY window size and meta.cols and
\* meta.rows and nothing else; meta_dirty and the disk are left alone, so
\* cols and rows on disk change only when another task writes the metadata;
\* a RESIZE body shorter than 4 bytes changes nothing.
C37_ResizeChangesSizeOnly == [][ResizeStep]_vars

\* RESIZE(120, 40) was processed and a later flush, caused by PTY output,
\* wrote the new size.
C37_Witness ==
    /\ resize_task.done = 1 /\ resize_task.ws_col = 120 /\ resize_task.ws_row = 40
    /\ meta.cols = 120 /\ meta.rows = 40
    /\ disk.cols = 120 /\ disk.rows = 40
    /\ flush.writes >= 1

(***************************************************************************)
(* EXIT frames on a connection                                             *)
(***************************************************************************)
\* The EXIT frames written to the socket of c, by the handshake or by the
\* forwarder.
ExitsSent(c) == SelectSeq(sock[c].sent, LAMBDA e : e.f.type = WS_MSG_EXIT)

\* C38: no connection is ever written more than one EXIT frame; the EXIT of
\* the handshake and the EXIT of the broadcast channel are never both
\* written to the same client.
C38_AtMostOneExit ==
    \A c \in Clients : Len(ExitsSent(c)) <= 1

\* Client c is connected in steady state and nothing more will be written
\* to it: its handshake is over, and its forwarder, neither lagged nor
\* aborted, has forwarded every frame published since it subscribed.
Drained(c) ==
    /\ hs[c].pc = "stream"
    /\ fwd[c].pc = "recv"
    /\ fwd[c].next = Len(bcast)

\* C39: a client that stays connected and keeps reading and has not lagged
\* is written an EXIT frame, by its forwarder or by its handshake, before the
\* host terminates: once the PTY read task has finished and all that was to
\* be written to the client has been written, an EXIT frame is among it.
C39_ConnectedClientGetsExit ==
    \A c \in Clients :
        (pty.pc = "done" /\ Drained(c)) => ExitsSent(c) # << >>

(***************************************************************************)
(* Byte counters                                                           *)
(***************************************************************************)
\* The step is the state update of the chunk in hand.
IsUpdate == pty.pc = "update" /\ pty'.pc = "data"

\* The state update adds the length of the chunk's cleaned bytes, which are
\* not empty, to both counters and stamps the activity; no other step changes
\* a counter or last_activity or makes the session active; a chunk whose
\* cleaned bytes are empty is done when it is read and changes nothing.
CounterStep ==
    /\ IsUpdate =>
         /\ Cleaned(pty.chunk) # << >>
         /\ meta'.total_bytes_written =
                meta.total_bytes_written + Len(Cleaned(pty.chunk))
         /\ output_buffer'.total_written =
                output_buffer.total_written + Len(Cleaned(pty.chunk))
         /\ meta'.last_activity = pty.chunks_read
         /\ session_active'
    /\ ~IsUpdate =>
         /\ meta'.total_bytes_written = meta.total_bytes_written
         /\ output_buffer'.total_written = output_buffer.total_written
         /\ meta'.last_activity = meta.last_activity
         /\ session_active' => session_active
    /\ (pty'.chunks_read # pty.chunks_read /\ Cleaned(pty'.chunk) = << >>) =>
         /\ pty'.pc = "read"
         /\ UNCHANGED <<meta, output_buffer, session_active, meta_dirty, stream>>

\* C40: meta.total_bytes_written and the ring buffer's total_written are
\* equal in every state and equal the total length of the cleaned bytes of
\* the chunks processed; a chunk whose cleaned bytes are empty changes
\* neither counter, nor last_activity, nor session_active.
C40_CountersAgree ==
    /\ [](/\ meta.total_bytes_written = output_buffer.total_written
          /\ meta.total_bytes_written = Len(stream))
    /\ [][CounterStep]_vars

\* An OSC 9 chunk, then a chunk of 18 bytes of which 6 are left: both
\* counters are 6.
C40_Witness ==
    /\ pty.pc = "read" /\ pty.chunks_read = 2
    /\ pty.chunk = TitleOsc9Chunk
    /\ ChunkFrames = <<NotificationFrame(<<110>>), TitleFrame(<<116>>),
                       NotificationFrame(<<110>>), NotificationFrame(<<111>>),
                       DataFrame(TitleChunk)>>
    /\ meta.total_bytes_written = 6 /\ output_buffer.total_written = 6
    /\ meta.last_activity = 2

============================================================================
